---------------------------- MODULE Spec2Model ----------------------------
(***************************************************************************)
(* A model of rerex, a small regular expression engine: a recursive        *)
(* descent parser that builds a Thompson NFA in a flat state array         *)
(* (rerex_compile), and a two-list simulator (rerex_match).                *)
(*                                                                         *)
(* Pattern and input texts are sequences of `char` values.  The C string   *)
(* terminator is not stored: reading offset Len(p) gives 0.  State indices *)
(* are the C indices (0-based); state i of an array is element i + 1 of    *)
(* the sequence that models it.                                            *)
(***************************************************************************)
EXTENDS Integers, Sequences, FiniteSets, TLC

VARIABLES
  pattern,   \* the pattern text handed to rerex_compile
  st,        \* the status the last rerex_compile returned (NONE before)
  end,       \* the caller's size_t that rerex_compile reports the offset in
  out,       \* the caller's RerexPattern*: NULL, STALE, or the pattern
  heap,      \* the blocks that are allocated
  matcher,   \* the RerexMatcher made by rerex_new_matcher, or NULL
  string,    \* the text of the last rerex_match call
  result,    \* the verdict of the last rerex_match call (NONE before)
  message,   \* the text the last rerex_strerror returned (NONE before)
  matchers,  \* the matchers of two threads that share the pattern
  calls      \* where the rerex_match call of each thread stands

vars ==
  <<pattern, st, end, out, heap, matcher, string, result, message, matchers, calls>>

\* What the calls of rerex_compile, of the matcher functions and of
\* rerex_free_pattern leave alone
others == <<message, matchers, calls>>

-----------------------------------------------------------------------------
(* Program constants *)

cmin == 32
cmax == 126
REREX_MATCH == 57344
REREX_SPLIT == 57345
NO_STATE == 0
\* The largest size_t.  TLC's integers are 32-bit and signed, so the model's
\* size_t is 31 bits wide; only its difference from every step number matters.
SIZE_MAX == 2147483647

REREX_SUCCESS == 0
REREX_EXPECTED_CHAR == 1
REREX_EXPECTED_ELEMENT == 2
REREX_EXPECTED_RBRACKET == 3
REREX_EXPECTED_RPAREN == 4
REREX_EXPECTED_SPECIAL == 5
REREX_UNEXPECTED_SPECIAL == 6
REREX_UNEXPECTED_END == 7
REREX_UNORDERED_RANGE == 8
REREX_NO_MEMORY == 9

\* The character codes the source writes as literals
Ch ==
  [lparen |-> 40, rparen |-> 41, star |-> 42, plus |-> 43, minus |-> 45,
   dot |-> 46, slash |-> 47, zero |-> 48, question |-> 63, lbracket |-> 91, backslash |-> 92,
   rbracket |-> 93, caret |-> 94, lbrace |-> 123, bar |-> 124, rbrace |-> 125,
   a |-> 97, b |-> 98, c |-> 99, d |-> 100, e |-> 101,
   tab |-> 9, del |-> 127, high |-> 225, neg |-> -31]

\* Pointer values that point to no object: NULL, and whatever a variable of
\* the caller held before (STALE)
NULL == [null |-> TRUE]
STALE == [stale |-> TRUE]

\* The value a call returned, and the lack of one before the first call
NONE == <<>>
Returned(v) == <<v>>

-----------------------------------------------------------------------------
(* State *)

match_state == [next1 |-> NO_STATE, next2 |-> NO_STATE, min |-> REREX_MATCH, max |-> 0]

split_state(next1, next2) ==
  [next1 |-> next1, next2 |-> next2, min |-> REREX_SPLIT, max |-> 0]

range_state(min, max, next) ==
  [next1 |-> next, next2 |-> NO_STATE, min |-> min, max |-> max]

\* states->states[i]
StateAt(states, i) == states[i + 1]

\* states->states[i] = s
SetState(states, i, s) == [states EXCEPT ![i + 1] = s]

\* The parser's working record: the Input cursor (off), the StateArray
\* (states), the number of realloc calls made so far (allocs) and the calls
\* among them that fail (fails), with the values the functions hand back:
\* the status (st), the Automata (nfa), the character read (ch) and the index
\* add_state returned (idx).  For the record, eaten holds the offsets of the
\* bytes that eat consumed and ahead the offsets at which the cursor stood
\* when peekahead was evaluated.
NewParse(fails) ==
  [off |-> 0, states |-> <<>>, allocs |-> 0, fails |-> fails,
   st |-> REREX_SUCCESS, nfa |-> [start |-> NO_STATE, end |-> NO_STATE],
   ch |-> 0, idx |-> NO_STATE, eaten |-> {}, ahead |-> {}]

\* Append a new state to the end of the state array; realloc call number
\* allocs + 1 fails when it is in fails, and then the array is unchanged
\* and NO_STATE is returned.
add_state(r, state) ==
  IF (r.allocs + 1) \in r.fails
    THEN [r EXCEPT !.allocs = @ + 1, !.idx = NO_STATE]
    ELSE [r EXCEPT !.allocs = @ + 1, !.idx = Len(r.states),
                   !.states = Append(@, state)]

make_automata(start, end_) == [start |-> start, end |-> end_]

is_trivial(states, nfa) ==
  /\ StateAt(states, nfa.start).min < REREX_MATCH
  /\ StateAt(states, nfa.start).next1 = nfa.end

\* In the operators below a local operator stands for the rest of a function
\* body after a call: its parameters are the values the call returned.

\* A star that demands one iteration: what plus builds
star_once(r, nfa) ==
  LET Rewrite(r1) ==
        [r1 EXCEPT !.states = SetState(@, nfa.end, split_state(nfa.start, r1.idx)),
                   !.nfa = make_automata(nfa.start, r1.idx)]
  IN Rewrite(add_state(r, match_state))

\* Kleene's Star of an NFA
star(r, nfa) ==
  LET Rewrite(r2, e) ==
        [r2 EXCEPT !.states = SetState(@, nfa.end, split_state(nfa.start, e)),
                   !.nfa = make_automata(r2.idx, e)]
      AddStart(r1) == Rewrite(add_state(r1, split_state(nfa.start, r1.idx)), r1.idx)
  IN AddStart(add_state(r, match_state))

\* Zero-or-one of an NFA
question(r, nfa) ==
  LET Return(r1) == [r1 EXCEPT !.nfa = make_automata(r1.idx, nfa.end)]
  IN Return(add_state(r, split_state(nfa.start, nfa.end)))

\* A plus that leaves the old end of the fragment as it is
plus_unrewritten(r, nfa) ==
  LET Return(r1) == [r1 EXCEPT !.nfa = make_automata(nfa.start, r1.idx)]
  IN Return(add_state(r, match_state))

\* One-or-more of an NFA
plus(r, nfa) ==
  LET Rewrite(r1) ==
        [r1 EXCEPT !.states = SetState(@, nfa.end, split_state(nfa.start, r1.idx)),
                   !.nfa = make_automata(nfa.start, r1.idx)]
  IN Rewrite(add_state(r, match_state))

\* A concatenation whose optimization forgets to link a's start to b
concatenate_unlinked(r, a, b) ==
  IF is_trivial(r.states, a)
    THEN [r EXCEPT !.nfa = make_automata(a.start, b.end)]
    ELSE [r EXCEPT !.states = SetState(@, a.end, split_state(b.start, NO_STATE)),
                   !.nfa = make_automata(a.start, b.end)]

\* Concatenation of two NFAs
concatenate(r, a, b) ==
  IF is_trivial(r.states, a)
    THEN [r EXCEPT !.states[a.start + 1].next1 = b.start,
                   !.nfa = make_automata(a.start, b.end)]
    ELSE [r EXCEPT !.states = SetState(@, a.end, split_state(b.start, NO_STATE)),
                   !.nfa = make_automata(a.start, b.end)]

\* An alternation whose optimization links a's start to b's start, not b's end
alternate_chained(r, a, b) ==
  LET Join(r2, split) ==
        [r2 EXCEPT
           !.states = SetState(SetState(@, a.end, split_state(r2.idx, NO_STATE)),
                               b.end, split_state(r2.idx, NO_STATE)),
           !.nfa = make_automata(split, r2.idx)]
      Link(r1) ==
        IF is_trivial(r1.states, a)
          THEN [r1 EXCEPT !.states[a.start + 1].next1 = b.start,
                          !.nfa = make_automata(r1.idx, b.end)]
          ELSE IF is_trivial(r1.states, b)
            THEN [r1 EXCEPT !.states[b.start + 1].next1 = a.end,
                            !.nfa = make_automata(r1.idx, a.end)]
            ELSE Join(add_state(r1, match_state), r1.idx)
  IN Link(add_state(r, split_state(a.start, b.start)))

\* An alternation that joins a's end only and leaves b's end as it is
alternate_open(r, a, b) ==
  LET Join(r2, split) ==
        [r2 EXCEPT
           !.states = SetState(@, a.end, split_state(r2.idx, NO_STATE)),
           !.nfa = make_automata(split, r2.idx)]
      Link(r1) ==
        IF is_trivial(r1.states, a)
          THEN [r1 EXCEPT !.states[a.start + 1].next1 = b.end,
                          !.nfa = make_automata(r1.idx, b.end)]
          ELSE IF is_trivial(r1.states, b)
            THEN [r1 EXCEPT !.states[b.start + 1].next1 = a.end,
                            !.nfa = make_automata(r1.idx, a.end)]
            ELSE Join(add_state(r1, match_state), r1.idx)
  IN Link(add_state(r, split_state(a.start, b.start)))

\* Alternation (OR) of two NFAs
alternate(r, a, b) ==
  LET Join(r2, split) ==
        [r2 EXCEPT
           !.states = SetState(SetState(@, a.end, split_state(r2.idx, NO_STATE)),
                               b.end, split_state(r2.idx, NO_STATE)),
           !.nfa = make_automata(split, r2.idx)]
      Link(r1) ==
        IF is_trivial(r1.states, a)
          THEN [r1 EXCEPT !.states[a.start + 1].next1 = b.end,
                          !.nfa = make_automata(r1.idx, b.end)]
          ELSE IF is_trivial(r1.states, b)
            THEN [r1 EXCEPT !.states[b.start + 1].next1 = a.end,
                            !.nfa = make_automata(r1.idx, a.end)]
            ELSE Join(add_state(r1, match_state), r1.idx)
  IN Link(add_state(r, split_state(a.start, b.start)))

-----------------------------------------------------------------------------
(* Status texts *)

INT32_MAX == 2147483647

status_strings ==
  <<"Success",
    "Expected a regular character",
    "Expected a character in a set",
    "Expected ']'",
    "Expected ')'",
    "Expected a special character (one of \"()*+-?[]^|\")",
    "Unexpected special character",
    "Unexpected end of input",
    "Range is out of order",
    "Failed to allocate memory">>

\* (unsigned)x for a 32-bit x: the top bit and the 31 bits below it
unsigned(x) ==
  [top |-> IF x < 0 THEN 1 ELSE 0, low |-> IF x < 0 THEN (x + INT32_MAX) + 1 ELSE x]

\* (unsigned)x <= (unsigned)y
unsigned_leq(x, y) ==
  LET Leq(ux, uy) == ux.top < uy.top \/ (ux.top = uy.top /\ ux.low <= uy.low)
  IN Leq(unsigned(x), unsigned(y))

\* A test of the status that compares it as the signed value it is
in_table_signed(status) == status <= REREX_NO_MEMORY

\* (unsigned)status <= (unsigned)REREX_NO_MEMORY: the table is read
in_table(status) == unsigned_leq(status, REREX_NO_MEMORY)

\* The texts that rerex_strerror(status) can return: the entry of the table,
\* whatever the memory around the table holds when it reads outside it, or
\* "Unknown error"
rerex_strerror(status) ==
  IF in_table(status)
    THEN IF status \in 0..(Len(status_strings) - 1)
           THEN {status_strings[status + 1]}
           ELSE {status_strings[i] : i \in 1..Len(status_strings)}
                  \cup {"Unknown error", ""}
    ELSE {"Unknown error"}

-----------------------------------------------------------------------------
(* Parser input *)

\* input->str[i]: the terminator follows the last character of the text
StrAt(p, i) == IF i < Len(p) THEN p[i + 1] ELSE 0

peek(p, r) == StrAt(p, r.off)

peekahead(p, r) == StrAt(p, r.off + 1)

\* The parser once peekahead was evaluated at its cursor
looked(r) == [r EXCEPT !.ahead = @ \cup {r.off}]

\* The cursor moves on; the callers take the character with peek first
eat(r) == [r EXCEPT !.off = @ + 1, !.eaten = @ \cup {r.off}]

is_special(c) ==
  c \in {Ch.lparen, Ch.rparen, Ch.star, Ch.plus, Ch.dot, Ch.question,
         Ch.lbracket, Ch.rbracket, Ch.caret, Ch.lbrace, Ch.bar, Ch.rbrace}

\* return status;
Fail(r, status) == [r EXCEPT !.st = status]

\* *out = eat(input); return REREX_SUCCESS;
EatChar(p, r) ==
  [r EXCEPT !.ch = StrAt(p, r.off), !.off = @ + 1, !.eaten = @ \cup {r.off},
            !.st = REREX_SUCCESS]

\* A dot whose range ends one byte above cmax
read_dot_wide(p, r) ==
  LET Return(r2, e) == [r2 EXCEPT !.nfa = make_automata(r2.idx, e), !.st = REREX_SUCCESS]
      AddStart(r1) == Return(add_state(r1, range_state(cmin, cmax + 1, r1.idx)), r1.idx)
  IN AddStart(add_state(eat(r), match_state))

\* DOT ::= '.'
read_dot(p, r) ==
  LET Return(r2, e) == [r2 EXCEPT !.nfa = make_automata(r2.idx, e), !.st = REREX_SUCCESS]
      AddStart(r1) == Return(add_state(r1, range_state(cmin, cmax, r1.idx)), r1.idx)
  IN AddStart(add_state(eat(r), match_state))

\* An escape that takes a second backslash too
read_escape_backslash(p, r) ==
  LET Escaped(r1, c) ==
        IF is_special(c) \/ c = Ch.minus \/ c = Ch.backslash
          THEN EatChar(p, r1)
          ELSE Fail(r1, REREX_EXPECTED_SPECIAL)
  IN Escaped(eat(r), StrAt(p, r.off + 1))

\* An escape that yields the backslash and leaves the escaped character
read_escape_kept(p, r) ==
  IF is_special(StrAt(p, r.off + 1)) \/ StrAt(p, r.off + 1) = Ch.minus
    THEN EatChar(p, r)
    ELSE Fail(eat(r), REREX_EXPECTED_SPECIAL)

\* An escape that eats the character behind the backslash before it
\* looks at it
read_escape_eager(p, r) ==
  LET Escaped(r1, c) ==
        IF is_special(c) \/ c = Ch.minus
          THEN EatChar(p, r1)
          ELSE Fail(eat(r1), REREX_EXPECTED_SPECIAL)
  IN Escaped(eat(r), StrAt(p, r.off + 1))

\* ESCAPE ::= '\' SPECIAL
read_escape(p, r) ==
  LET Escaped(r1, c) ==
        IF is_special(c) \/ c = Ch.minus
          THEN EatChar(p, r1)
          ELSE Fail(r1, REREX_EXPECTED_SPECIAL)
  IN Escaped(eat(r), StrAt(p, r.off + 1))

\* A character reader that steps over a character it refuses
read_char_eating(p, r) ==
  LET c == peek(p, r)
  IN IF c = 0 THEN Fail(r, REREX_UNEXPECTED_END)
     ELSE IF c = Ch.backslash THEN read_escape(p, r)
     ELSE IF is_special(c) THEN Fail(eat(r), REREX_UNEXPECTED_SPECIAL)
     ELSE IF c >= cmin /\ c <= cmax THEN EatChar(p, r)
     ELSE Fail(eat(r), REREX_EXPECTED_CHAR)

\* CHAR ::= ESCAPE | [#x20-#x7E] - SPECIAL
read_char(p, r) ==
  LET c == peek(p, r)
  IN IF c = 0 THEN Fail(r, REREX_UNEXPECTED_END)
     ELSE IF c = Ch.backslash THEN read_escape(p, r)
     ELSE IF is_special(c) THEN Fail(r, REREX_UNEXPECTED_SPECIAL)
     ELSE IF c >= cmin /\ c <= cmax THEN EatChar(p, r)
     ELSE Fail(r, REREX_EXPECTED_CHAR)

\* An element reader that does not look for the terminator
read_element_endless(p, r) ==
  LET c == peek(p, r)
      Escaped(r1) ==
        IF peek(p, r1) # Ch.rbracket
          THEN Fail(r1, REREX_EXPECTED_RBRACKET)
          ELSE EatChar(p, r1)
  IN IF c = Ch.rbracket THEN Fail(r, REREX_UNEXPECTED_SPECIAL)
     ELSE IF c = Ch.backslash THEN Escaped(eat(r))
     ELSE IF c >= cmin /\ c <= cmax THEN EatChar(p, r)
     ELSE Fail(r, REREX_EXPECTED_ELEMENT)

\* An element reader that takes any character but the terminator, ] and \
read_element_unbounded(p, r) ==
  LET c == peek(p, r)
      Escaped(r1) ==
        IF peek(p, r1) # Ch.rbracket
          THEN Fail(r1, REREX_EXPECTED_RBRACKET)
          ELSE EatChar(p, r1)
  IN IF c = 0 THEN Fail(r, REREX_UNEXPECTED_END)
     ELSE IF c = Ch.rbracket THEN Fail(r, REREX_UNEXPECTED_SPECIAL)
     ELSE IF c = Ch.backslash THEN Escaped(eat(r))
     ELSE EatChar(p, r)

\* ELEMENT ::= ([#x20-#x7E] - ']') | ('\' ']')
read_element(p, r) ==
  LET c == peek(p, r)
      Escaped(r1) ==
        IF peek(p, r1) # Ch.rbracket
          THEN Fail(r1, REREX_EXPECTED_RBRACKET)
          ELSE EatChar(p, r1)
  IN IF c = 0 THEN Fail(r, REREX_UNEXPECTED_END)
     ELSE IF c = Ch.rbracket THEN Fail(r, REREX_UNEXPECTED_SPECIAL)
     ELSE IF c = Ch.backslash THEN Escaped(eat(r))
     ELSE IF c >= cmin /\ c <= cmax THEN EatChar(p, r)
     ELSE Fail(r, REREX_EXPECTED_ELEMENT)

\* The states of one range of a set where the bounds of the two ranges of a
\* negated range are kept inside the normal characters
range_states_clamped(r, negated, min, max) ==
  LET Return(r2, e) == [r2 EXCEPT !.nfa = make_automata(r2.idx, e)]
      AddFork(r3, low, e) == Return(add_state(r3, split_state(low, r3.idx)), e)
      AddHigh(r2, e) ==
        AddFork(add_state(r2, range_state(IF max = cmax THEN cmax ELSE max + 1, cmax, e)),
                r2.idx, e)
      AddRange(r1) ==
        IF negated
          THEN AddHigh(add_state(r1, range_state(cmin, IF min = cmin THEN cmin ELSE min - 1,
                                                 r1.idx)),
                       r1.idx)
          ELSE Return(add_state(r1, range_state(min, max, r1.idx)), r1.idx)
  IN AddRange(add_state(r, match_state))

\* The states of one range of a set (the end of read_range): for a negated
\* range the characters below min and those above max
range_states(r, negated, min, max) ==
  LET Return(r2, e) == [r2 EXCEPT !.nfa = make_automata(r2.idx, e)]
      AddFork(r3, low, e) == Return(add_state(r3, split_state(low, r3.idx)), e)
      AddHigh(r2, e) == AddFork(add_state(r2, range_state(max + 1, cmax, e)), r2.idx, e)
      AddRange(r1) ==
        IF negated
          THEN AddHigh(add_state(r1, range_state(cmin, min - 1, r1.idx)), r1.idx)
          ELSE Return(add_state(r1, range_state(min, max, r1.idx)), r1.idx)
  IN AddRange(add_state(r, match_state))

\* A range reader that takes the first element for both ends of a range
read_range_low(p, r, negated) ==
  LET Build(r2, min, max) ==
        IF r2.st # REREX_SUCCESS THEN r2
        ELSE IF max < min THEN Fail(r2, REREX_UNORDERED_RANGE)
        ELSE range_states(r2, negated, min, min)
      Upper(r2, min) == Build(r2, min, r2.ch)
      Ahead(r3) ==
        IF peekahead(p, r3) # Ch.rbracket
          THEN Upper(read_element(p, eat(r3)), r3.ch)
          ELSE Build(r3, r3.ch, r3.ch)
      First(r1) ==
        IF r1.st # REREX_SUCCESS THEN r1
        ELSE IF peek(p, r1) = Ch.minus THEN Ahead(looked(r1))
        ELSE Build(r1, r1.ch, r1.ch)
  IN First(read_element(p, r))

\* A range reader that does not compare the ends of a range
read_range_unordered(p, r, negated) ==
  LET Build(r2, min, max) ==
        IF r2.st # REREX_SUCCESS THEN r2
        ELSE range_states(r2, negated, min, max)
      Upper(r2, min) == Build(r2, min, r2.ch)
      Ahead(r3) ==
        IF peekahead(p, r3) # Ch.rbracket
          THEN Upper(read_element(p, eat(r3)), r3.ch)
          ELSE Build(r3, r3.ch, r3.ch)
      First(r1) ==
        IF r1.st # REREX_SUCCESS THEN r1
        ELSE IF peek(p, r1) = Ch.minus THEN Ahead(looked(r1))
        ELSE Build(r1, r1.ch, r1.ch)
  IN First(read_element(p, r))

\* Range ::= ELEMENT | ELEMENT '-' ELEMENT
read_range(p, r, negated) ==
  LET Build(r2, min, max) ==
        IF r2.st # REREX_SUCCESS THEN r2
        ELSE IF max < min THEN Fail(r2, REREX_UNORDERED_RANGE)
        ELSE range_states(r2, negated, min, max)
      Upper(r2, min) == Build(r2, min, r2.ch)
      Ahead(r3) ==
        IF peekahead(p, r3) # Ch.rbracket
          THEN Upper(read_element(p, eat(r3)), r3.ch)
          ELSE Build(r3, r3.ch, r3.ch)
      First(r1) ==
        IF r1.st # REREX_SUCCESS THEN r1
        ELSE IF peek(p, r1) = Ch.minus THEN Ahead(looked(r1))
        ELSE Build(r1, r1.ch, r1.ch)
  IN First(read_element(p, r))

\* The loop of read_set: more ranges until the next character is ']'
RECURSIVE read_set_loop(_, _, _, _)
read_set_loop(p, r, negated, nfa) ==
  LET Again(r2) == read_set_loop(p, r2, negated, r2.nfa)
      Ranged(r1) ==
        IF r1.st # REREX_SUCCESS THEN r1 ELSE Again(alternate(r1, nfa, r1.nfa))
  IN IF peek(p, r) = Ch.rbracket
       THEN [r EXCEPT !.nfa = nfa]
       ELSE Ranged(read_range(p, r, negated))

\* Set ::= Range | Range Set
read_set(p, r) ==
  LET negated == peek(p, r) = Ch.caret
      Ranged(r1) ==
        IF r1.st # REREX_SUCCESS THEN r1 ELSE read_set_loop(p, r1, negated, r1.nfa)
  IN Ranged(read_range(p, IF negated THEN eat(r) ELSE r, negated))

RECURSIVE read_atom(_, _)
RECURSIVE read_factor(_, _)
RECURSIVE read_term(_, _)
RECURSIVE read_expr(_, _)

\* Atom ::= CHAR | DOT | '(' Expr ')' | '[' Set ']'
read_atom(p, r) ==
  LET c == peek(p, r)
      Group(r1) ==
        IF r1.st # REREX_SUCCESS THEN r1
        ELSE IF peek(p, r1) # Ch.rparen THEN Fail(r1, REREX_EXPECTED_RPAREN)
        ELSE eat(r1)
      Set(r1) == IF r1.st # REREX_SUCCESS THEN r1 ELSE eat(r1)
      Return(r3, e) == [r3 EXCEPT !.nfa = make_automata(r3.idx, e)]
      AddStart(r2, ch) == Return(add_state(r2, range_state(ch, ch, r2.idx)), r2.idx)
      Char(r1) ==
        IF r1.st # REREX_SUCCESS THEN r1
        ELSE AddStart(add_state(r1, match_state), r1.ch)
  IN IF c = Ch.lparen THEN Group(read_expr(p, eat(r)))
     ELSE IF c = Ch.dot THEN read_dot(p, r)
     ELSE IF c = Ch.lbracket THEN Set(read_set(p, eat(r)))
     ELSE Char(read_char(p, r))

\* A factor reader that takes a second operator behind the first
read_factor_twice(p, r) ==
  LET Operator(r1, c) ==
        IF r1.st # REREX_SUCCESS THEN r1
        ELSE IF c = Ch.star THEN star(eat(r1), r1.nfa)
        ELSE IF c = Ch.plus THEN plus(eat(r1), r1.nfa)
        ELSE IF c = Ch.question THEN question(eat(r1), r1.nfa)
        ELSE r1
      Second(r1) == Operator(r1, peek(p, r1))
      Atom(r1) == Second(Operator(r1, peek(p, r1)))
  IN Atom(read_atom(p, r))

\* Factor ::= Atom | Atom OPERATOR
read_factor(p, r) ==
  LET Operator(r1, c) ==
        IF r1.st # REREX_SUCCESS THEN r1
        ELSE IF c = Ch.star THEN star(eat(r1), r1.nfa)
        ELSE IF c = Ch.plus THEN plus(eat(r1), r1.nfa)
        ELSE IF c = Ch.question THEN question(eat(r1), r1.nfa)
        ELSE r1
      Atom(r1) == Operator(r1, peek(p, r1))
  IN Atom(read_atom(p, r))

\* A term reader that ends a term at ] too
read_term_bracket(p, r) ==
  LET Rest(r1, r2) ==
        IF r2.st # REREX_SUCCESS THEN r2 ELSE concatenate(r2, r1.nfa, r2.nfa)
      Factor(r1, c) ==
        IF r1.st # REREX_SUCCESS THEN r1
        ELSE IF c = 0 \/ c = Ch.rparen \/ c = Ch.bar \/ c = Ch.rbracket THEN r1
        ELSE Rest(r1, read_term(p, r1))
      Peek(r1) == Factor(r1, peek(p, r1))
  IN Peek(read_factor(p, r))

\* Term ::= Factor | Factor Term
read_term(p, r) ==
  LET Rest(r1, r2) ==
        IF r2.st # REREX_SUCCESS THEN r2 ELSE concatenate(r2, r1.nfa, r2.nfa)
      Factor(r1, c) ==
        IF r1.st # REREX_SUCCESS THEN r1
        ELSE IF c = 0 \/ c = Ch.rparen \/ c = Ch.bar THEN r1
        ELSE Rest(r1, read_term(p, r1))
      Peek(r1) == Factor(r1, peek(p, r1))
  IN Peek(read_factor(p, r))

\* Expr ::= Term | Term '|' Expr
read_expr(p, r) ==
  LET Rest(r1, r2) ==
        IF r2.st # REREX_SUCCESS THEN r2 ELSE alternate(r2, r1.nfa, r2.nfa)
      Term(r1) ==
        IF r1.st # REREX_SUCCESS THEN r1
        ELSE IF peek(p, r1) = Ch.bar THEN Rest(r1, read_expr(p, eat(r1)))
        ELSE r1
  IN Term(read_term(p, r))

-----------------------------------------------------------------------------
(* Pattern *)

\* A compile that refuses a text with characters left behind the expression
rerex_compile_whole(p, end0, out0, fails, malloc_ok) ==
  LET Return(r) ==
        IF r.st = REREX_SUCCESS /\ peek(p, r) # 0
          THEN [st |-> REREX_UNEXPECTED_SPECIAL, end |-> r.off, arena |-> FALSE,
                out |-> out0]
        ELSE IF r.st = REREX_SUCCESS
          THEN IF malloc_ok
                 THEN [st |-> REREX_SUCCESS, end |-> r.off, arena |-> TRUE,
                       out |-> [states |-> r.states, start |-> r.nfa.start]]
                 ELSE [st |-> r.st, end |-> r.off, arena |-> FALSE, out |-> NULL]
          ELSE [st |-> r.st, end |-> r.off, arena |-> FALSE, out |-> out0]
      Read(r0) ==
        IF r0.states # <<>>
          THEN Return(read_expr(p, r0))
          ELSE [st |-> REREX_NO_MEMORY, end |-> end0, arena |-> FALSE, out |-> out0]
  IN Read(add_state(NewParse(fails), split_state(NO_STATE, NO_STATE)))

\* A compile that clears *out when the pattern text is wrong
rerex_compile_clearing(p, end0, out0, fails, malloc_ok) ==
  LET Return(r) ==
        IF r.st = REREX_SUCCESS
          THEN IF malloc_ok
                 THEN [st |-> REREX_SUCCESS, end |-> r.off, arena |-> TRUE,
                       out |-> [states |-> r.states, start |-> r.nfa.start]]
                 ELSE [st |-> r.st, end |-> r.off, arena |-> FALSE, out |-> NULL]
          ELSE [st |-> r.st, end |-> r.off, arena |-> FALSE, out |-> NULL]
      Read(r0) ==
        IF r0.states # <<>>
          THEN Return(read_expr(p, r0))
          ELSE [st |-> REREX_NO_MEMORY, end |-> end0, arena |-> FALSE, out |-> out0]
  IN Read(add_state(NewParse(fails), split_state(NO_STATE, NO_STATE)))

\* A compile that reads the expression into an empty state array, with no
\* placeholder at index 0
rerex_compile_bare(p, end0, out0, fails, malloc_ok) ==
  LET Return(r) ==
        IF r.st = REREX_SUCCESS
          THEN IF malloc_ok
                 THEN [st |-> REREX_SUCCESS, end |-> r.off, arena |-> TRUE,
                       out |-> [states |-> r.states, start |-> r.nfa.start]]
                 ELSE [st |-> r.st, end |-> r.off, arena |-> FALSE, out |-> NULL]
          ELSE [st |-> r.st, end |-> r.off, arena |-> FALSE, out |-> out0]
  IN Return(read_expr(p, NewParse(fails)))

\* rerex_compile(pattern, end, out), called with *end = end0 and *out = out0.
\* fails are the realloc calls of add_state that fail and malloc_ok tells
\* whether the malloc of the pattern object succeeds.  The result holds the
\* returned status, the caller's *end and *out at the return, and in arena
\* whether the state array is still allocated then.
rerex_compile(p, end0, out0, fails, malloc_ok) ==
  LET Return(r) ==
        IF r.st = REREX_SUCCESS
          THEN IF malloc_ok
                 THEN [st |-> REREX_SUCCESS, end |-> r.off, arena |-> TRUE,
                       out |-> [states |-> r.states, start |-> r.nfa.start]]
                 ELSE [st |-> r.st, end |-> r.off, arena |-> FALSE, out |-> NULL]
          ELSE [st |-> r.st, end |-> r.off, arena |-> FALSE, out |-> out0]
      Read(r0) ==
        IF r0.states # <<>>
          THEN Return(read_expr(p, r0))
          ELSE [st |-> REREX_NO_MEMORY, end |-> end0, arena |-> FALSE, out |-> out0]
  IN Read(add_state(NewParse(fails), split_state(NO_STATE, NO_STATE)))

-----------------------------------------------------------------------------
(* Matcher *)

Zeros(n) == [i \in 1..n |-> 0]

\* The matcher's buffers, as calloc leaves them: two index lists and
\* last_active, each n_states long.  overrun records a write past the end of
\* an index list.
rerex_new_matcher(regexp) ==
  [active |-> <<[indices |-> Zeros(Len(regexp.states)), n_indices |-> 0],
                [indices |-> Zeros(Len(regexp.states)), n_indices |-> 0]>>,
   last_active |-> Zeros(Len(regexp.states)),
   overrun |-> FALSE]

\* A buffer that calloc did not give: the pointer is NULL, nothing can be
\* read or written through it
NoBuffer == <<>>

\* calloc(n, size) when the call succeeds (ok) and when it fails
calloc(ok, n) == IF ok THEN Zeros(n) ELSE NoBuffer

\* The outcomes of the four calloc calls of rerex_new_matcher, in the order
\* of the calls: the matcher, active[0].indices, active[1].indices, last_active
CallocOutcomes == [1..4 -> BOOLEAN]

\* rerex_new_matcher(regexp) under the outcomes ok of its calloc calls: NULL
\* when the matcher itself is not allocated, else the matcher with whatever
\* the three other calls returned
rerex_new_matcher_under(regexp, ok) ==
  IF ok[1]
    THEN [active |-> <<[indices |-> calloc(ok[2], Len(regexp.states)), n_indices |-> 0],
                       [indices |-> calloc(ok[3], Len(regexp.states)), n_indices |-> 0]>>,
          last_active |-> calloc(ok[4], Len(regexp.states)),
          overrun |-> FALSE]
    ELSE NULL

\* The blocks that the calloc calls of rerex_new_matcher gave
CallocBlocks(ok) ==
  IF ok[1]
    THEN {"matcher"} \cup (IF ok[2] THEN {"active0"} ELSE {})
                     \cup (IF ok[3] THEN {"active1"} ELSE {})
                     \cup (IF ok[4] THEN {"last_active"} ELSE {})
    ELSE {}

\* list->indices[list->n_indices++] = s, for list = &matcher->active[l]
PushIndex(m, l, s) ==
  IF m.active[l + 1].n_indices < Len(m.active[l + 1].indices)
    THEN [m EXCEPT !.active[l + 1].indices[m.active[l + 1].n_indices + 1] = s,
                   !.active[l + 1].n_indices = @ + 1]
    ELSE [m EXCEPT !.active[l + 1].n_indices = @ + 1, !.overrun = TRUE]

\* Add `s` and any epsilon successors to the active list l
RECURSIVE enter_state(_, _, _, _, _)
enter_state(states, m, step, l, s) ==
  LET Second(m2, state) == enter_state(states, m2, step, l, state.next2)
      Enter(m1, state) ==
        IF state.min = REREX_SPLIT
          THEN Second(enter_state(states, m1, step, l, state.next1), state)
          ELSE PushIndex(m1, l, s)
  IN IF s # NO_STATE /\ m.last_active[s + 1] # step
       THEN Enter([m EXCEPT !.last_active[s + 1] = step], StateAt(states, s))
       ELSE m

\* A reset that clears the step marks and keeps the lists
reset_marks(m) ==
  [m EXCEPT !.last_active = [i \in DOMAIN m.last_active |-> SIZE_MAX]]

\* Reset matcher to a consistent initial state
reset_matcher(m) ==
  [m EXCEPT !.active[1].n_indices = 0,
            !.active[2].n_indices = 0,
            !.last_active = [i \in DOMAIN m.last_active |-> SIZE_MAX]]

\* for (j = 0; j < list->n_indices; ++j): the successors of the states of
\* list `phase` that take c are entered in the other list at step i + 1
RECURSIVE tick_states(_, _, _, _, _, _)
tick_states(states, m, c, i, phase, j) ==
  LET Step(state) ==
        IF state.min <= c /\ c <= state.max
          THEN enter_state(states, m, i + 1, 1 - phase, state.next1)
          ELSE m
  IN IF j < m.active[phase + 1].n_indices
       THEN tick_states(states,
                        Step(StateAt(states, m.active[phase + 1].indices[j + 1])),
                        c, i, phase, j + 1)
       ELSE m

\* for (i = 0; string[i]; ++i): tick the matcher for every input character.
\* The result is the matcher with the final phase.
RECURSIVE tick_matcher(_, _, _, _, _)
tick_matcher(states, m, str, i, phase) ==
  IF StrAt(str, i) # 0
    THEN tick_matcher(states,
                      tick_states(states,
                                  [m EXCEPT !.active[(1 - phase) + 1].n_indices = 0],
                                  StrAt(str, i), i, phase, 0),
                      str, i + 1, 1 - phase)
    ELSE [m |-> m, phase |-> phase]

\* Check if match state is entered in the end
match_entered(states, list) ==
  \E i \in 1..list.n_indices :
    StateAt(states, list.indices[i]).min = REREX_MATCH

\* rerex_match(matcher, string): the matcher as the call leaves it, and the
\* verdict
rerex_match(regexp, m, str) ==
  LET Verdict(t) ==
        [matcher |-> t.m,
         result |-> match_entered(regexp.states, t.m.active[t.phase + 1])]
  IN Verdict(tick_matcher(regexp.states,
                          enter_state(regexp.states, reset_matcher(m), 0, 0,
                                      regexp.start),
                          str, 0, 0))

-----------------------------------------------------------------------------
(* rerex_match, step by step *)

\* A thread that has no call of rerex_match running; in a call, pc is the
\* statement the thread is about to run, with the locals i, j and phase.
\* During a call of enter_state, stack holds the states whose enter_state
\* calls are still to be made, the innermost first, and back the statement
\* that follows the outermost call.
Idle ==
  [pc |-> "idle", string |-> <<>>, i |-> 0, j |-> 0, phase |-> 0,
   stack |-> <<>>, back |-> "idle", result |-> NONE]

\* Both threads pass the one matcher to rerex_match
matcher_of_same(thread) == 1

\* The matcher that a thread passes to rerex_match: its own
matcher_of(thread) == thread

\* list->indices[j]; a list that n_indices has outgrown gives NO_STATE there
IndexAt(list, j) == IF j < Len(list.indices) THEN list.indices[j + 1] ELSE NO_STATE

\* The calls of enter_state nest no deeper than this in the model
MaxStack == 12

\* An enter_state that follows the arcs of a state whether or not the state
\* was entered in this step
enter_state_again(states, m, step, l, stack) ==
  LET s == Head(stack)
      Enter(state) ==
        IF state.min = REREX_SPLIT
          THEN [m |-> m, stack |-> <<state.next1, state.next2>> \o Tail(stack)]
          ELSE [m |-> PushIndex(m, l, s), stack |-> Tail(stack)]
  IN IF s # NO_STATE
       THEN Enter(StateAt(states, s))
       ELSE [m |-> m, stack |-> Tail(stack)]

\* An enter_state that tests the step mark of a state and never sets it
enter_state_unmarked(states, m, step, l, stack) ==
  LET s == Head(stack)
      Enter(m1, state) ==
        IF state.min = REREX_SPLIT
          THEN [m |-> m1, stack |-> <<state.next1, state.next2>> \o Tail(stack)]
          ELSE [m |-> PushIndex(m1, l, s), stack |-> Tail(stack)]
  IN IF s # NO_STATE /\ m.last_active[s + 1] # step
       THEN Enter(m, StateAt(states, s))
       ELSE [m |-> m, stack |-> Tail(stack)]

\* One call enter_state(matcher, step, list, s) for the state s on top of the
\* stack, up to its own calls of enter_state, which go on the stack
enter_state_call(states, m, step, l, stack) ==
  LET s == Head(stack)
      Enter(m1, state) ==
        IF state.min = REREX_SPLIT
          THEN [m |-> m1, stack |-> <<state.next1, state.next2>> \o Tail(stack)]
          ELSE [m |-> PushIndex(m1, l, s), stack |-> Tail(stack)]
  IN IF s # NO_STATE /\ m.last_active[s + 1] # step
       THEN Enter([m EXCEPT !.last_active[s + 1] = step], StateAt(states, s))
       ELSE [m |-> m, stack |-> Tail(stack)]

\* The statement at call.pc of rerex_match(m, call.string), run by a thread
\* on the matcher m: the matcher and the call after it
match_step(regexp, m, call) ==
  LET c == StrAt(call.string, call.i)
      list == m.active[call.phase + 1]
      Taken(state) ==
        IF state.min <= c /\ c <= state.max
          THEN [call EXCEPT !.pc = "entering", !.stack = <<state.next1>>,
                            !.back = "state"]
          ELSE [call EXCEPT !.j = @ + 1]
      Entered(r) == [m |-> r.m, call |-> [call EXCEPT !.stack = r.stack]]
  IN CASE call.pc = "reset" ->
            [m |-> reset_matcher(m), call |-> [call EXCEPT !.pc = "enter"]]
       [] call.pc = "enter" ->
            [m |-> m,
             call |-> [call EXCEPT !.pc = "entering", !.stack = <<regexp.start>>,
                                   !.back = "char", !.i = 0, !.phase = 0]]
       [] call.pc = "entering" ->
            IF call.stack = <<>>
              THEN [m |-> m,
                    call |-> [call EXCEPT !.pc = call.back, !.back = "idle",
                                          !.j = IF call.back = "state" THEN @ + 1 ELSE @]]
            ELSE IF call.back = "char"
              THEN Entered(enter_state_call(regexp.states, m, 0, 0, call.stack))
              ELSE Entered(enter_state_call(regexp.states, m, call.i + 1,
                                            1 - call.phase, call.stack))
       [] call.pc = "char" ->
            IF c # 0
              THEN [m |-> [m EXCEPT !.active[(1 - call.phase) + 1].n_indices = 0],
                    call |-> [call EXCEPT !.pc = "state", !.j = 0]]
              ELSE [m |-> m, call |-> [call EXCEPT !.pc = "check"]]
       [] call.pc = "state" ->
            IF call.j < list.n_indices
              THEN [m |-> m, call |-> Taken(StateAt(regexp.states, IndexAt(list, call.j)))]
              ELSE [m |-> m,
                    call |-> [call EXCEPT !.pc = "char", !.i = @ + 1,
                                          !.phase = 1 - call.phase]]
       [] call.pc = "check" ->
            [m |-> m,
             call |-> [call EXCEPT
                         !.pc = "done",
                         !.result =
                           Returned(\E i \in 0..(list.n_indices - 1) :
                                      StateAt(regexp.states, IndexAt(list, i)).min
                                        = REREX_MATCH)]]

-----------------------------------------------------------------------------
(* Bounds and input sets *)

\* The texts over the characters S that are at most n long
Texts(S, n) == UNION {[1..k -> S] : k \in 0..n}

\* The outcomes of the realloc calls of a compilation: none fails, or one of
\* the first MaxFailAt does
MaxFailAt == 3
FailPlans == {{}} \cup {{k} : k \in 1..MaxFailAt}
NoFail == {{}}

\* Any pattern text: ordinary characters, every kind of special character
\* and a byte outside the printable range
MaxPatLen == 3
MaxTextLen == 1
PatChars ==
  {Ch.a, Ch.b, Ch.lparen, Ch.rparen, Ch.star, Ch.plus, Ch.question, Ch.bar,
   Ch.dot, Ch.lbracket, Ch.rbracket, Ch.caret, Ch.minus, Ch.backslash,
   Ch.lbrace, Ch.del}
Patterns == Texts(PatChars, MaxPatLen)
Strings == Texts({Ch.a, Ch.minus}, MaxTextLen)

\* Texts to compile: letters, what opens and closes groups and sets, an
\* operator, the bar, the range sign, the escape and a byte that is not
\* printable
MaxCompileLen == 4
CompileChars ==
  {Ch.a, Ch.b, Ch.lparen, Ch.rparen, Ch.star, Ch.bar, Ch.lbracket, Ch.rbracket,
   Ch.minus, Ch.backslash, Ch.del}
CompilePatterns == Texts(CompileChars, MaxCompileLen)

\* Expressions: two letters, the operators and the parentheses; the texts
\* start with what starts an Atom, the others fail at their first character
MaxExprLen == 5
MaxExprTextLen == 2
ExprChars ==
  {Ch.a, Ch.b, Ch.bar, Ch.star, Ch.plus, Ch.question, Ch.lparen, Ch.rparen}
ExprPatterns ==
  {p \in Texts(ExprChars, MaxExprLen) :
     p = <<>> \/ p[1] \in {Ch.a, Ch.b, Ch.lparen}}
ExprStrings == Texts({Ch.a, Ch.b}, MaxExprTextLen)

\* Atoms: a bracketed set with at most MaxSetLen characters between the
\* brackets, or a text of letters, dots and escapes.  The input characters
\* are printable ones, among them the lowest (space) and the highest (~),
\* and bytes outside the printable range; a byte with the high bit set is
\* 225 where char is unsigned and -31 where it is signed.
MaxSetLen == 4
MaxLitLen == 3
MaxLitTextLen == 2
SetChars == {Ch.b, Ch.d, Ch.plus, Ch.minus, Ch.caret, Ch.backslash, Ch.rbracket}
LitChars == {Ch.a, Ch.dot, Ch.backslash, Ch.lparen, Ch.minus}
SetPatterns ==
  {<<Ch.lbracket>> \o body \o <<Ch.rbracket>> : body \in Texts(SetChars, MaxSetLen)}
AtomPatterns == SetPatterns \cup Texts(LitChars, MaxLitLen)
AtomTextChars ==
  {Ch.a, Ch.b, Ch.c, Ch.d, Ch.e, Ch.plus, Ch.minus, Ch.caret, Ch.rbracket, Ch.backslash,
   Ch.lparen, Ch.dot, cmin, cmax, Ch.tab, Ch.del, Ch.high, Ch.neg}
AtomStrings ==
  Texts(AtomTextChars, 1) \cup Texts({Ch.a, Ch.lparen, Ch.minus, Ch.dot}, MaxLitTextLen)

\* Texts of the characters of the grammar, well written or not
MaxSyntaxLen == 3
SyntaxChars ==
  {Ch.a, Ch.lparen, Ch.rparen, Ch.bar, Ch.lbracket, Ch.rbracket, Ch.star, Ch.plus,
   Ch.question, Ch.lbrace, Ch.rbrace, Ch.caret, Ch.backslash, Ch.minus}
SyntaxPatterns == Texts(SyntaxChars, MaxSyntaxLen)

\* Status values: the ten of the enumeration, their neighbours on both
\* sides, and the ends of the 32-bit range
MaxStatus == 60
StatusValues ==
  (-MaxStatus..MaxStatus) \cup {INT32_MAX, INT32_MAX - 1, -INT32_MAX, (-INT32_MAX) - 1}

\* Two threads that match texts against one pattern
MaxSharedLen == 2
MaxSharedTextLen == 1
Threads == {1, 2}
SharedPatterns == Texts({Ch.a, Ch.b, Ch.star, Ch.bar}, MaxSharedLen)
SharedStrings == Texts({Ch.a, Ch.b}, MaxSharedTextLen)

\* Texts of atoms, sets, groups and every operator, for the state arrays
\* that the builder operations leave: short texts of any form, the sets, and
\* alternations of two operands that each are an atom or a repetition
MaxBuildLen == 4
MaxOperandLen == 2
BuildChars ==
  {Ch.a, Ch.bar, Ch.star, Ch.plus, Ch.question, Ch.lparen, Ch.rparen,
   Ch.lbracket, Ch.rbracket, Ch.caret, Ch.dot}
Operands == Texts({Ch.a, Ch.dot, Ch.star, Ch.question}, MaxOperandLen)
Alternations == {x \o <<Ch.bar>> \o y : x, y \in Operands}
BuildPatterns == Texts(BuildChars, MaxBuildLen) \cup SetPatterns \cup Alternations

\* Sets of ranges that touch the ends of the normal characters, and atoms
\* of them, with texts of one byte, normal or not
MaxEdgeLen == 4
MaxEdgeLitLen == 2
EdgeChars == {cmin, Ch.slash, Ch.lbrace, cmax, Ch.minus, Ch.caret, Ch.b}
EdgeLitChars == {cmin, cmax, Ch.dot, Ch.backslash, Ch.star}
EdgePatterns ==
  {<<Ch.lbracket>> \o body \o <<Ch.rbracket>> : body \in Texts(EdgeChars, MaxEdgeLen)}
    \cup Texts(EdgeLitChars, MaxEdgeLitLen)
EdgeBytes ==
  {cmin - 1, cmin, Ch.slash, Ch.zero, Ch.b, Ch.lbrace, cmax, Ch.del, Ch.high, Ch.neg}
EdgeStrings == Texts(EdgeBytes, 1)

\* Patterns of every construct and texts of one letter, matched statement
\* by statement
MaxWalkLen == 4
MaxWalkTextLen == 2
WalkChars ==
  {Ch.a, Ch.bar, Ch.star, Ch.question, Ch.lparen, Ch.rparen, Ch.lbracket,
   Ch.rbracket, Ch.caret}
WalkPatterns == Texts(WalkChars, MaxWalkLen)
WalkStrings == Texts({Ch.a}, MaxWalkTextLen)

\* Patterns with repetitions of repetitions, matched statement by statement
MaxCycleLen == 5
MaxCycleTextLen == 2
CyclePatterns ==
  {p \in Texts({Ch.a, Ch.star, Ch.plus, Ch.question, Ch.lparen, Ch.rparen}, MaxCycleLen) :
     p # <<>> /\ p[1] \in {Ch.a, Ch.lparen}}
CycleStrings == Texts({Ch.a}, MaxCycleTextLen)

\* Reuse of one matcher for many texts
MaxReuseLen == 3
MaxReuseTextLen == 2
ReusePatterns == Texts(ExprChars, MaxReuseLen)
ReuseStrings == Texts({Ch.a, Ch.b}, MaxReuseTextLen)

-----------------------------------------------------------------------------
(* The operations of the library, as a caller performs them *)

PatternBlocks == {"pattern", "states"}
MatcherBlocks == {"matcher", "active0", "active1", "last_active"}

\* The caller holds a pattern text, and a RerexPattern* that is NULL or
\* holds whatever it held before (STALE)
InitWith(P, O) ==
  /\ pattern \in P
  /\ out \in O
  /\ st = NONE
  /\ end = 0
  /\ heap = {}
  /\ matcher = NULL
  /\ string = <<>>
  /\ result = NONE
  /\ message = NONE
  /\ matchers = <<NULL, NULL>>
  /\ calls = <<Idle, Idle>>

\* st = rerex_compile(pattern, &end, &out), once for a caller, under the
\* outcomes F of its realloc calls and M of its malloc call; at most one
\* allocation of a compilation fails
Compile(F, M) ==
  LET Returns(c) ==
        /\ st' = Returned(c.st)
        /\ end' = c.end
        /\ out' = c.out
        /\ heap' = IF c.arena THEN heap \cup PatternBlocks ELSE heap
  IN /\ st = NONE
     /\ "pattern" \notin heap
     /\ \E fails \in F, malloc_ok \in M :
          /\ fails = {} \/ malloc_ok
          /\ Returns(rerex_compile(pattern, end, out, fails, malloc_ok))
     /\ UNCHANGED <<pattern, matcher, string, result, others>>

\* matcher = rerex_new_matcher(out)
NewMatcher ==
  /\ "pattern" \in heap
  /\ "matcher" \notin heap
  /\ matcher' = rerex_new_matcher(out)
  /\ heap' = heap \cup MatcherBlocks
  /\ UNCHANGED <<pattern, st, end, out, string, result, others>>

\* matcher = rerex_new_matcher(out), under any outcome of its calloc calls
NewMatcherCalloc ==
  /\ "pattern" \in heap
  /\ "matcher" \notin heap
  /\ matcher = NULL
  /\ \E ok \in CallocOutcomes :
       /\ matcher' = rerex_new_matcher_under(out, ok)
       /\ heap' = heap \cup CallocBlocks(ok)
  /\ UNCHANGED <<pattern, st, end, out, string, result, others>>

\* rerex_match(matcher, s) stays within the matcher's buffers: the first list
\* and last_active are written for every text, the second list only may be
\* for a text that is not empty
MatchDefined(s) ==
  /\ {"matcher", "active0", "last_active"} \subseteq heap
  /\ "active1" \in heap \/ s = <<>>

\* A match that keeps the length of the text it read in the placeholder
\* state of the pattern
Match_marking(S, reuse) ==
  LET Returns(s, r) ==
        /\ string' = s
        /\ result' = Returned(r.result)
        /\ matcher' = r.matcher
        /\ out' = [out EXCEPT !.states[1].max = Len(s)]
  IN /\ "matcher" \in heap
     /\ reuse \/ result = NONE
     /\ \E s \in S : MatchDefined(s) /\ Returns(s, rerex_match(out, matcher, s))
     /\ UNCHANGED <<pattern, st, end, heap, others>>

\* result = rerex_match(matcher, s) for a text s of S; a caller that does
\* not reuse matchers calls it once on each
Match(S, reuse) ==
  LET Returns(s, r) ==
        /\ string' = s
        /\ result' = Returned(r.result)
        /\ matcher' = r.matcher
  IN /\ "matcher" \in heap
     /\ reuse \/ result = NONE
     /\ \E s \in S : MatchDefined(s) /\ Returns(s, rerex_match(out, matcher, s))
     /\ UNCHANGED <<pattern, st, end, out, heap, others>>

\* rerex_match(matcher, s) on a matcher with a buffer missing: the call
\* writes through a null pointer, which the build may turn into any verdict
\* or into the end of the process, whose memory is then gone
MatchFault(S) ==
  /\ "matcher" \in heap
  /\ result = NONE
  /\ \E s \in S :
       /\ ~MatchDefined(s)
       /\ string' = s
       /\ \/ result' \in {Returned(TRUE), Returned(FALSE)} /\ UNCHANGED <<matcher, heap>>
          \/ result' = NONE /\ matcher' = NULL /\ heap' = {}
  /\ UNCHANGED <<pattern, st, end, out, others>>

\* rerex_free_matcher(matcher); the caller forgets the matcher and its verdict
FreeMatcher ==
  /\ "matcher" \in heap
  /\ heap' = heap \ MatcherBlocks
  /\ matcher' = NULL
  /\ string' = <<>>
  /\ result' = NONE
  /\ UNCHANGED <<pattern, st, end, out, others>>

\* rerex_free_pattern(out); the caller's pointer keeps its value
FreePattern ==
  /\ "pattern" \in heap
  /\ "matcher" \notin heap
  /\ heap' = heap \ PatternBlocks
  /\ UNCHANGED <<pattern, st, end, out, matcher, string, result, others>>

\* Any pattern text, any outcome of compile's allocations
Init == InitWith(Patterns, {NULL, STALE})

Next ==
  \/ Compile(FailPlans, BOOLEAN)
  \/ NewMatcher
  \/ Match(Strings, TRUE)
  \/ FreeMatcher
  \/ FreePattern

Spec == Init /\ [][Next]_vars

\* Compilation alone, under any outcome of its allocations
InitCompile == InitWith(CompilePatterns, {NULL, STALE})

NextCompile ==
  \/ Compile(FailPlans, BOOLEAN)
  \/ FreePattern

SpecCompile == InitCompile /\ [][NextCompile]_vars

\* Expressions, compiled with no allocation failing, a matcher for each text
InitExpr == InitWith(ExprPatterns, {NULL})

NextExpr ==
  \/ Compile(NoFail, {TRUE})
  \/ NewMatcher
  \/ Match(ExprStrings, FALSE)
  \/ FreeMatcher
  \/ FreePattern

SpecExpr == InitExpr /\ [][NextExpr]_vars

\* Atoms, compiled with no allocation failing, a matcher for each text
InitAtom == InitWith(AtomPatterns, {NULL})

NextAtom ==
  \/ Compile(NoFail, {TRUE})
  \/ NewMatcher
  \/ Match(AtomStrings, FALSE)
  \/ FreeMatcher
  \/ FreePattern

SpecAtom == InitAtom /\ [][NextAtom]_vars

\* Compilations of texts of the characters of the grammar, no allocation
\* failing
InitSyntax == InitWith(SyntaxPatterns, {NULL})

NextSyntax ==
  \/ Compile(NoFail, {TRUE})
  \/ FreePattern

SpecSyntax == InitSyntax /\ [][NextSyntax]_vars

\* Each thread makes its matcher of the pattern, before any starts a call
NewMatchers ==
  /\ "pattern" \in heap
  /\ "matchers" \notin heap
  /\ matchers' = <<rerex_new_matcher(out), rerex_new_matcher(out)>>
  /\ heap' = heap \cup {"matchers"}
  /\ UNCHANGED <<pattern, st, end, out, matcher, string, result, message, calls>>

\* A thread calls rerex_match(matcher, s) for a text s of S
BeginMatch(thread, S) ==
  /\ "matchers" \in heap
  /\ calls[thread].pc = "idle"
  /\ \E s \in S : calls' = [calls EXCEPT ![thread] = [Idle EXCEPT !.pc = "reset", !.string = s]]
  /\ UNCHANGED <<pattern, st, end, out, heap, matcher, string, result, message, matchers>>

\* A thread runs the next statement of its call
MatchStep(thread) ==
  LET After(r) ==
        /\ matchers' = [matchers EXCEPT ![matcher_of(thread)] = r.m]
        /\ calls' = [calls EXCEPT ![thread] = r.call]
  IN /\ calls[thread].pc \notin {"idle", "done"}
     /\ Len(calls[thread].stack) <= MaxStack
     /\ After(match_step(out, matchers[matcher_of(thread)], calls[thread]))
     /\ UNCHANGED <<pattern, st, end, out, heap, matcher, string, result, message>>

\* The calls have returned; the threads free their matchers
FreeMatchers ==
  /\ "matchers" \in heap
  /\ \A thread \in Threads : calls[thread].pc = "done"
  /\ matchers' = <<NULL, NULL>>
  /\ calls' = <<Idle, Idle>>
  /\ heap' = heap \ {"matchers"}
  /\ UNCHANGED <<pattern, st, end, out, matcher, string, result, message>>

\* Two threads, each with its matcher of one pattern, match concurrently
InitShared == InitWith(SharedPatterns, {NULL})

NextShared ==
  \/ Compile(NoFail, {TRUE})
  \/ NewMatchers
  \/ \E thread \in Threads : BeginMatch(thread, SharedStrings)
  \/ \E thread \in Threads : MatchStep(thread)
  \/ FreeMatchers

SpecShared == InitShared /\ [][NextShared]_vars

\* Compilations of texts of every construct, no allocation failing
InitBuild == InitWith(BuildPatterns, {NULL})

NextBuild ==
  \/ Compile(NoFail, {TRUE})
  \/ FreePattern

SpecBuild == InitBuild /\ [][NextBuild]_vars

\* The call of a thread has returned; the thread may call again
ReturnMatch(thread) ==
  /\ calls[thread].pc = "done"
  /\ calls' = [calls EXCEPT ![thread] = Idle]
  /\ UNCHANGED <<pattern, st, end, out, heap, matcher, string, result, message, matchers>>

\* One thread matches statement by statement, and is never stopped for good
\* in the middle of a call
InitCycle == InitWith(CyclePatterns, {NULL})

NextCycle ==
  \/ Compile(NoFail, {TRUE})
  \/ NewMatchers
  \/ BeginMatch(1, CycleStrings)
  \/ MatchStep(1)
  \/ ReturnMatch(1)

SpecCycle == InitCycle /\ [][NextCycle]_vars /\ WF_vars(MatchStep(1))

\* Sets and atoms at the ends of the normal characters, compiled and matched
InitEdge == InitWith(EdgePatterns, {NULL})

NextEdge ==
  \/ Compile(NoFail, {TRUE})
  \/ NewMatcher
  \/ Match(EdgeStrings, FALSE)
  \/ FreeMatcher
  \/ FreePattern

SpecEdge == InitEdge /\ [][NextEdge]_vars

\* One thread matches texts against patterns of every construct, statement
\* by statement
InitWalk == InitWith(WalkPatterns, {NULL})

NextWalk ==
  \/ Compile(NoFail, {TRUE})
  \/ NewMatchers
  \/ BeginMatch(1, WalkStrings)
  \/ MatchStep(1)
  \/ ReturnMatch(1)

SpecWalk == InitWalk /\ [][NextWalk]_vars

\* message = rerex_strerror(st), for the status the caller holds
StrError ==
  /\ st # NONE
  /\ message = NONE
  /\ \E text \in rerex_strerror(st[1]) : message' = Returned(text)
  /\ UNCHANGED <<pattern, st, end, out, heap, matcher, string, result, matchers, calls>>

\* The caller looks at the text and drops it
DropMessage ==
  /\ message # NONE
  /\ message' = NONE
  /\ UNCHANGED <<pattern, st, end, out, heap, matcher, string, result, matchers, calls>>

\* Texts of any status value, valid or not
InitStatus ==
  /\ pattern = <<>>
  /\ st \in {Returned(s) : s \in StatusValues}
  /\ end = 0
  /\ out = NULL
  /\ heap = {}
  /\ matcher = NULL
  /\ string = <<>>
  /\ result = NONE
  /\ message = NONE
  /\ matchers = <<NULL, NULL>>
  /\ calls = <<Idle, Idle>>

NextStatus ==
  \/ StrError
  \/ DropMessage

SpecStatus == InitStatus /\ [][NextStatus]_vars

\* Matchers made under any outcome of the allocations of rerex_new_matcher
InitMatcher == InitWith(ReusePatterns, {NULL})

NextMatcher ==
  \/ Compile(NoFail, {TRUE})
  \/ NewMatcherCalloc
  \/ Match(ReuseStrings, FALSE)
  \/ MatchFault(ReuseStrings)
  \/ FreeMatcher
  \/ FreePattern

SpecMatcher == InitMatcher /\ [][NextMatcher]_vars

\* Expressions, compiled with no allocation failing, one matcher for any
\* sequence of texts
InitReuse == InitWith(ReusePatterns, {NULL})

NextReuse ==
  \/ Compile(NoFail, {TRUE})
  \/ NewMatcher
  \/ Match(ReuseStrings, TRUE)
  \/ FreeMatcher
  \/ FreePattern

SpecReuse == InitReuse /\ [][NextReuse]_vars

-----------------------------------------------------------------------------
(* What a caller observes of a pattern text *)

\* The parser at the start of read_expr in rerex_compile, no allocation failing
ParseStart == add_state(NewParse({}), split_state(NO_STATE, NO_STATE))

\* The whole of text A is read as an Atom, a Factor, a Term
IsAtomText(A) ==
  LET Whole(r) == r.st = REREX_SUCCESS /\ r.off = Len(A)
  IN Whole(read_atom(A, ParseStart))

IsFactorText(A) ==
  LET Whole(r) == r.st = REREX_SUCCESS /\ r.off = Len(A)
  IN Whole(read_factor(A, ParseStart))

IsTermText(A) ==
  LET Whole(r) == r.st = REREX_SUCCESS /\ r.off = Len(A)
  IN Whole(read_term(A, ParseStart))

\* What rerex_compile(p, ...) gives a caller whose *out is NULL when no
\* allocation fails
Compiled(p) == rerex_compile(p, 0, NULL, {}, TRUE)

Compiles(p) == Compiled(p).st = REREX_SUCCESS

\* The compilation c succeeded and a new matcher of its pattern matches s
Matches(c, s) ==
  /\ c.st = REREX_SUCCESS
  /\ rerex_match(c.out, rerex_new_matcher(c.out), s).result

\* p compiles and a new matcher of the pattern matches s
Accepts(p, s) == Matches(Compiled(p), s)

\* The part of text s after its first i characters
Drop(s, i) == SubSeq(s, i + 1, Len(s))

\* s is a concatenation of zero or more texts, each matched by the pattern
\* of c
RECURSIVE StarMatches(_, _)
StarMatches(c, s) ==
  \/ s = <<>>
  \/ \E i \in 1..Len(s) : Matches(c, SubSeq(s, 1, i)) /\ StarMatches(c, Drop(s, i))

\* s is a concatenation of one or more texts, each matched by the pattern of c
PlusMatches(c, s) ==
  \E i \in 0..Len(s) : Matches(c, SubSeq(s, 1, i)) /\ StarMatches(c, Drop(s, i))

\* s splits into a text the pattern of ca matches and one that of cb matches
SplitMatches(ca, cb, s) ==
  \E i \in 0..Len(s) : Matches(ca, SubSeq(s, 1, i)) /\ Matches(cb, Drop(s, i))

-----------------------------------------------------------------------------
(* Expressions *)

\* C1: when the pattern is A|B, A a Term and B a text that compiles, the
\* pattern compiles and a match on it returns true iff a match on A returns
\* true for the same text or a match on B does, whether or not A or B is a
\* trivial two-state fragment.
C1_Alternation ==
  \A k \in 1..Len(pattern) :
    (/\ pattern[k] = Ch.bar
     /\ IsTermText(SubSeq(pattern, 1, k - 1))
     /\ Compiles(Drop(pattern, k)))
    => /\ st # NONE => st = Returned(REREX_SUCCESS)
       /\ result # NONE =>
            result = Returned(\/ Accepts(SubSeq(pattern, 1, k - 1), string)
                              \/ Accepts(Drop(pattern, k), string))

\* An alternation of two starred atoms, neither of them trivial, has accepted
\* a text that is not empty
C1_Witness ==
  /\ Len(pattern) = 5
  /\ pattern[2] = Ch.star /\ pattern[3] = Ch.bar /\ pattern[5] = Ch.star
  /\ string # <<>>
  /\ result = Returned(TRUE)

\* C2: when the pattern is AB, A a Factor and B a Term, the pattern compiles
\* and a match on it returns true iff the text splits at some i, 0 <= i <= len,
\* into a part A matches and a part B matches, whether A is trivial or not.
C2_Concatenation ==
  \A k \in 1..(Len(pattern) - 1) :
    (/\ IsFactorText(SubSeq(pattern, 1, k))
     /\ IsTermText(Drop(pattern, k)))
    => /\ st # NONE => st = Returned(REREX_SUCCESS)
       /\ result # NONE =>
            result = Returned(SplitMatches(Compiled(SubSeq(pattern, 1, k)),
                                           Compiled(Drop(pattern, k)), string))

\* A concatenation whose first factor is not trivial has accepted a text of
\* two characters
C2_Witness ==
  /\ Len(pattern) >= 3
  /\ pattern[2] \in {Ch.star, Ch.plus, Ch.question}
  /\ IsFactorText(SubSeq(pattern, 1, 2))
  /\ IsTermText(Drop(pattern, 2))
  /\ Len(string) = 2
  /\ result = Returned(TRUE)

\* The verdicts on the empty text that do not depend on the state; they are
\* computed once, in the states of the empty pattern
EmptyInputVerdicts ==
  pattern = <<>> =>
    /\ Accepts(<<Ch.dot, Ch.star>>, <<>>)
    /\ Accepts(<<Ch.a, Ch.question>>, <<>>)
    /\ Accepts(<<Ch.lparen, Ch.a, Ch.bar, Ch.b, Ch.rparen, Ch.question>>, <<>>)
    /\ Compiles(<<Ch.dot>>) /\ ~Accepts(<<Ch.dot>>, <<>>)
    /\ Compiles(<<Ch.a, Ch.plus>>) /\ ~Accepts(<<Ch.a, Ch.plus>>, <<>>)
    /\ Compiles(<<Ch.lbracket, Ch.b, Ch.c, Ch.rbracket>>)
    /\ ~Accepts(<<Ch.lbracket, Ch.b, Ch.c, Ch.rbracket>>, <<>>)

\* C3: when the pattern is an Atom A followed by an operator, a match returns
\* true iff the text is a concatenation of zero or more texts A matches (*),
\* of one or more (+), or is empty or matched by A (?); the empty text matches
\* .* a? (a|b)? and does not match . a+ [bc]
C3_Repetition ==
  /\ (/\ Len(pattern) >= 2
      /\ result # NONE
      /\ IsAtomText(SubSeq(pattern, 1, Len(pattern) - 1))) =>
       /\ pattern[Len(pattern)] = Ch.star =>
            result = Returned(StarMatches(Compiled(SubSeq(pattern, 1, Len(pattern) - 1)),
                                          string))
       /\ pattern[Len(pattern)] = Ch.plus =>
            result = Returned(PlusMatches(Compiled(SubSeq(pattern, 1, Len(pattern) - 1)),
                                          string))
       /\ pattern[Len(pattern)] = Ch.question =>
            result = Returned(\/ string = <<>>
                              \/ Accepts(SubSeq(pattern, 1, Len(pattern) - 1), string))
  /\ EmptyInputVerdicts

\* A starred group has matched the empty text
C3_Witness ==
  /\ Len(pattern) >= 4
  /\ pattern[1] = Ch.lparen
  /\ pattern[Len(pattern)] = Ch.star
  /\ IsAtomText(SubSeq(pattern, 1, Len(pattern) - 1))
  /\ string = <<>>
  /\ result = Returned(TRUE)

-----------------------------------------------------------------------------
(* Atoms *)

\* The bytes 0x20-0x7E
Printable == cmin..cmax

\* The whole of the pattern is one bracketed set, negated or not
IsSetText(p) == Len(p) >= 3 /\ p[1] = Ch.lbracket /\ IsAtomText(p)

\* The characters between the brackets, after the ^ of a negated set
SetBody(p) ==
  IF p[2] = Ch.caret THEN SubSeq(p, 3, Len(p) - 1) ELSE SubSeq(p, 2, Len(p) - 1)

\* The element of a set body at i (a character, or ] written \]) and the
\* number of characters it takes
ElementAt(body, i) == IF body[i] = Ch.backslash THEN Ch.rbracket ELSE body[i]

ElementLen(body, i) == IF body[i] = Ch.backslash THEN 2 ELSE 1

\* The characters in the ranges that a set body lists from i on: x-y is the
\* range from x to y, a - that ends the body is an element, and so is a -
\* where an element is expected
RECURSIVE ListedChars(_, _)
ListedChars(body, i) ==
  IF i > Len(body) THEN {}
  ELSE LET j == i + ElementLen(body, i)
       IN IF j < Len(body) /\ body[j] = Ch.minus
            THEN (ElementAt(body, i)..ElementAt(body, j + 1))
                   \cup ListedChars(body, j + 1 + ElementLen(body, j + 1))
            ELSE {ElementAt(body, i)} \cup ListedChars(body, j)

\* C4: a negated class that compiles accepts exactly the texts of one
\* printable byte that lies in none of the ranges the class lists, whether it
\* lists one range or several.
C4_NegatedClass ==
  (result # NONE /\ IsSetText(pattern) /\ pattern[2] = Ch.caret) =>
    result = Returned(/\ Len(string) = 1
                      /\ string[1] \in Printable
                      /\ string[1] \notin ListedChars(SetBody(pattern), 1))

\* C5: a positive class that compiles accepts exactly the texts of one byte
\* that lies in the union of its ranges, a lone element being a range of one
\* character and a - before the closing bracket an element: [+-] accepts
\* exactly "+" and "-".
C5_PositiveClass ==
  /\ (result # NONE /\ IsSetText(pattern) /\ pattern[2] # Ch.caret) =>
       result = Returned(/\ Len(string) = 1
                         /\ string[1] \in ListedChars(SetBody(pattern), 1))
  /\ (result # NONE /\ pattern = <<Ch.lbracket, Ch.plus, Ch.minus, Ch.rbracket>>) =>
       result = Returned(string \in {<<Ch.plus>>, <<Ch.minus>>})

\* A positive class of two ranges has accepted a character inside its second
\* range that is neither end of it
C5_Witness ==
  /\ IsSetText(pattern)
  /\ pattern[2] # Ch.caret
  /\ Len(pattern) >= 6
  /\ pattern[Len(pattern) - 2] = Ch.minus
  /\ Len(string) = 1
  /\ string[1] \notin {pattern[i] : i \in 1..Len(pattern)}
  /\ result = Returned(TRUE)

\* C6: . matches exactly the texts of one byte in 0x20-0x7E, and no pattern
\* of a dot, a literal or a class accepts a text with a byte outside that range.
C6_Dot ==
  /\ (result # NONE /\ pattern = <<Ch.dot>>) =>
       result = Returned(Len(string) = 1 /\ string[1] \in Printable)
  /\ result = Returned(TRUE) => \A i \in 1..Len(string) : string[i] \in Printable

\* The dot has rejected a byte with the high bit set
C6_Witness ==
  /\ pattern = <<Ch.dot>>
  /\ Len(string) = 1
  /\ string[1] \in {Ch.high, Ch.neg}
  /\ result = Returned(FALSE)

\* The characters an escape may name: SPECIAL and -
Escapable == {c \in Printable : is_special(c)} \cup {Ch.minus}

\* The text is made of ordinary characters and escapes from position i on
RECURSIVE IsLiteralText(_, _)
IsLiteralText(p, i) ==
  IF i > Len(p) THEN TRUE
  ELSE IF p[i] = Ch.backslash
    THEN i < Len(p) /\ p[i + 1] \in Escapable /\ IsLiteralText(p, i + 2)
    ELSE p[i] \in Printable /\ ~is_special(p[i]) /\ IsLiteralText(p, i + 1)

\* The characters a literal text spells from position i on
RECURSIVE Spell(_, _)
Spell(p, i) ==
  IF i > Len(p) THEN <<>>
  ELSE IF p[i] = Ch.backslash
    THEN <<p[i + 1]>> \o Spell(p, i + 2)
    ELSE <<p[i]>> \o Spell(p, i + 1)

\* C7: a pattern of ordinary characters and escapes compiles and matches
\* exactly one text, the characters it spells: no prefix of it, no extension
\* of it, no other text.
C7_Literal ==
  (pattern # <<>> /\ IsLiteralText(pattern, 1)) =>
    /\ st # NONE => st = Returned(REREX_SUCCESS)
    /\ result # NONE => result = Returned(string = Spell(pattern, 1))

\* A literal with an escape has rejected a proper prefix of what it spells
C7_Witness ==
  /\ Len(pattern) = 3
  /\ IsLiteralText(pattern, 1)
  /\ \E i \in 1..2 : pattern[i] = Ch.backslash
  /\ string = SubSeq(Spell(pattern, 1), 1, 1)
  /\ result = Returned(FALSE)

-----------------------------------------------------------------------------
(* Matcher reuse *)

\* C8: after any sequence of matches on one matcher, the verdict of the last
\* match is the verdict of a new matcher of the same pattern on the same text.
C8_MatcherReuse ==
  result # NONE => result = Returned(Accepts(pattern, string))

\* The matcher has matched the empty text after a longer one: its second list
\* still holds the states of the earlier match
C8_Witness ==
  /\ result = Returned(FALSE)
  /\ string = <<>>
  /\ matcher # NULL
  /\ \E i \in DOMAIN matcher.active[2].indices : matcher.active[2].indices[i] # 0
  /\ \E i \in DOMAIN matcher.last_active : matcher.last_active[i] = 0

-----------------------------------------------------------------------------
(* Compilation *)

\* A status other than success that is not an allocation's
IsTextError(status) == status \notin {REREX_SUCCESS, REREX_NO_MEMORY}

\* The text up to and with the character at offset k
Upto(p, k) == SubSeq(p, 1, IF k < Len(p) THEN k + 1 ELSE Len(p))

\* Compiling the text cut after the character at offset k stops at k with
\* the status given
StopsAt(p, k, status) ==
  LET Same(c) == c.st = status /\ c.end = k
  IN Same(rerex_compile(Upto(p, k), 0, NULL, {}, TRUE))

\* C9: a compilation returns success only for a text that compiles; one
\* that fails on a wrong text leaves *out as it was and keeps no block
\* allocated, and when the status is an error of the text, *end is the offset
\* where parsing stopped with the first error met: the text up to that
\* character alone gives that status at that offset.
C9_CompileFailure ==
  [][("pattern" \notin heap /\ st' # NONE) =>
       /\ st' = Returned(REREX_SUCCESS) => Compiles(pattern)
       /\ (st' = Returned(REREX_NO_MEMORY) /\ ~Compiles(pattern)) =>
            out' = out /\ heap' = heap
       /\ IsTextError(st'[1]) =>
            /\ out' = out
            /\ heap' = heap
            /\ end' \in 0..Len(pattern)
            /\ StopsAt(pattern, end', st'[1])]_vars

\* A compilation has failed inside the text, at a character that is neither
\* the first nor the end, with the caller's pointer not NULL before
C9_Witness ==
  /\ st # NONE
  /\ IsTextError(st[1])
  /\ end > 0
  /\ end < Len(pattern)
  /\ out = STALE
  /\ heap = {}

\* C10: whenever rerex_compile has returned REREX_SUCCESS, *out is a pattern
\* with the state array and the start index, under every outcome of the
\* allocations.
C10_SuccessGivesPattern ==
  st = Returned(REREX_SUCCESS) => out \notin {NULL, STALE}

-----------------------------------------------------------------------------
(* Allocation failures *)

\* C11: when an append to the state array fails during a compilation,
\* rerex_compile does not return success with a pattern: the pattern of a
\* success holds every state of the text, as built when no allocation fails,
\* and no state of it has the index of a failed append in place of a state's.
C11_AppendFailure ==
  (st = Returned(REREX_SUCCESS) /\ out \notin {NULL, STALE}) =>
    out = Compiled(pattern).out

\* C12: a matcher that rerex_new_matcher has handed to the caller has its two
\* index lists and last_active allocated, each with room for as many entries
\* as the pattern has states, under every outcome of the four allocations.
C12_MatcherComplete ==
  "matcher" \in heap =>
    /\ MatcherBlocks \subseteq heap
    /\ Len(matcher.active[1].indices) = Len(out.states)
    /\ Len(matcher.active[2].indices) = Len(out.states)
    /\ Len(matcher.last_active) = Len(out.states)

-----------------------------------------------------------------------------
(* Offsets of failures *)

\* The character at offset k of the text is the upper end of a range of a
\* set, and lower than the lower end: after a '-', itself or, for ']', behind
\* its backslash
UnorderedAt(p, k) ==
  LET Ordered(dash) ==
        /\ dash >= 2
        /\ StrAt(p, dash) = Ch.minus
        /\ StrAt(p, k) < StrAt(p, dash - 1)
  IN /\ k >= 3
     /\ k < Len(p)
     /\ IF StrAt(p, k) = Ch.rbracket
          THEN StrAt(p, k - 1) = Ch.backslash /\ Ordered(k - 2)
          ELSE Ordered(k - 1)

\* What the character c at offset k of the text is, the one before it being
\* b, for its reading to give the status (c = 0: the terminator)
Triggers(status, p, k, b, c) ==
  CASE status = REREX_EXPECTED_CHAR ->
         c # 0 /\ c \notin Printable
    [] status = REREX_EXPECTED_ELEMENT ->
         c # 0 /\ c \notin Printable
    [] status = REREX_EXPECTED_RBRACKET ->
         b = Ch.backslash /\ c # Ch.rbracket
    [] status = REREX_EXPECTED_RPAREN ->
         c # Ch.rparen
    [] status = REREX_EXPECTED_SPECIAL ->
         b = Ch.backslash /\ ~is_special(c) /\ c # Ch.minus
    [] status = REREX_UNEXPECTED_SPECIAL ->
         is_special(c)
    [] status = REREX_UNEXPECTED_END ->
         c = 0
    [] status = REREX_UNORDERED_RANGE ->
         UnorderedAt(p, k)

\* The character at offset k of the text is one whose reading gives the status
OffendingAt(status, p, k) ==
  /\ k \in 0..Len(p)
  /\ Triggers(status, p, k, IF k > 0 THEN StrAt(p, k - 1) ELSE 0, StrAt(p, k))

\* C13 as stated: after a compilation that has failed with a syntax status,
\* *end is the offset of the character whose reading gave the status, or of
\* the terminator when the text ended early, for each of the eight statuses.
C13_OffsetOfOffender ==
  (st # NONE /\ IsTextError(st[1])) => OffendingAt(st[1], pattern, end)

\* C13: after a compilation that has failed with a syntax status, *end is the
\* offset of the character whose reading gave the status (the terminator when
\* the text ended early), except that for REREX_UNORDERED_RANGE it is the
\* offset just past the upper end of the range, whose reading gave the status.
C13_OffsetFidelity ==
  (st # NONE /\ IsTextError(st[1])) =>
    IF st[1] = REREX_UNORDERED_RANGE
      THEN end >= 1 /\ OffendingAt(st[1], pattern, end - 1)
      ELSE OffendingAt(st[1], pattern, end)

\* A compilation has failed on a range whose ends are not in order
C13_Witness ==
  /\ st = Returned(REREX_UNORDERED_RANGE)
  /\ end = Len(pattern)

-----------------------------------------------------------------------------
(* Ranges of sets *)

\* An element of a set is written at offset i of the text: a printable
\* character other than ] and \, or \]
IsElementAt(p, i) ==
  IF StrAt(p, i) = Ch.backslash
    THEN StrAt(p, i + 1) = Ch.rbracket
    ELSE StrAt(p, i) \in Printable \ {Ch.rbracket}

\* The element written at offset i, and the offset after it
ElementOf(p, i) == IF StrAt(p, i) = Ch.backslash THEN Ch.rbracket ELSE StrAt(p, i)

AfterElement(p, i) == IF StrAt(p, i) = Ch.backslash THEN i + 2 ELSE i + 1

\* The offset just past the first range x-y with y < x among the ranges
\* written in the text from offset i on, all well written before it; 0 when
\* there is none
RECURSIVE UnorderedEnd(_, _)
UnorderedEnd(p, i) ==
  IF ~IsElementAt(p, i) THEN 0
  ELSE LET j == AfterElement(p, i)
       IN IF StrAt(p, j) = Ch.minus /\ StrAt(p, j + 1) # Ch.rbracket
            THEN IF ~IsElementAt(p, j + 1) THEN 0
                 ELSE IF ElementOf(p, j + 1) < ElementOf(p, i)
                   THEN AfterElement(p, j + 1)
                   ELSE UnorderedEnd(p, AfterElement(p, j + 1))
            ELSE UnorderedEnd(p, j)

\* The offset of the first element of the set that the text begins with
SetStart(p) == IF StrAt(p, 1) = Ch.caret THEN 2 ELSE 1

\* The parser about to read a range at offset k, the state array holding
\* the sentinel
ReadingAt(k) == [ParseStart EXCEPT !.off = k]

\* A failed read_range hands back the state array it was given
NoStateFor(r0, r1) ==
  r1.st = REREX_UNORDERED_RANGE =>
    r1.states = r0.states /\ r1.allocs = r0.allocs

IsRangeState(s) == s.min \notin {REREX_MATCH, REREX_SPLIT}

\* C14: when the ranges of a class are read and one x-y has y < x, the
\* compilation fails with REREX_UNORDERED_RANGE at the offset just past the
\* upper end (4 for [d-b]) and read_range adds no state for the range; no
\* other text gives that status, so every range of a compiled class has
\* x <= y, and no Range state of a compiled positive class has max < min.
C14_RangeOrder ==
  (st # NONE /\ StrAt(pattern, 0) = Ch.lbracket) =>
    /\ UnorderedEnd(pattern, SetStart(pattern)) > 0 =>
         /\ st = Returned(REREX_UNORDERED_RANGE)
         /\ end = UnorderedEnd(pattern, SetStart(pattern))
    /\ st = Returned(REREX_UNORDERED_RANGE) =>
         UnorderedEnd(pattern, SetStart(pattern)) > 0
    /\ pattern = <<Ch.lbracket, Ch.d, Ch.minus, Ch.b, Ch.rbracket>> => end = 4
    /\ \A k \in 1..Len(pattern), negated \in BOOLEAN :
         NoStateFor(ReadingAt(k), read_range(pattern, ReadingAt(k), negated))
    /\ (st = Returned(REREX_SUCCESS) /\ StrAt(pattern, 1) # Ch.caret) =>
         \A i \in 1..Len(out.states) :
           IsRangeState(out.states[i]) => out.states[i].min <= out.states[i].max

\* A range of a class has its ends out of order, the upper one being an
\* escaped bracket: the compilation has failed just past it
C14_Witness ==
  /\ st = Returned(REREX_UNORDERED_RANGE)
  /\ end = Len(pattern) - 1
  /\ end >= 5
  /\ StrAt(pattern, end - 1) = Ch.rbracket

-----------------------------------------------------------------------------
(* Where a character stands *)

\* Where the parser stands after a character c, from where it stood before:
\* outside a set ("out"), behind a backslash there ("escape"), behind the [
\* of a set ("open"), behind [^ ("first"), behind an element of a set
\* ("set"), behind a backslash in a set ("set escape"). A - in a set is an
\* element or stands between two.
After(where, c) ==
  CASE where = "out" ->
         IF c = Ch.backslash THEN "escape"
         ELSE IF c = Ch.lbracket THEN "open" ELSE "out"
    [] where = "escape" -> "out"
    [] where = "open" ->
         IF c = Ch.caret THEN "first"
         ELSE IF c = Ch.backslash THEN "set escape" ELSE "set"
    [] where = "first" ->
         IF c = Ch.backslash THEN "set escape" ELSE "set"
    [] where = "set" ->
         IF c = Ch.rbracket THEN "out"
         ELSE IF c = Ch.backslash THEN "set escape" ELSE "set"
    [] where = "set escape" -> "set"

\* Where the character at offset k of the text stands, the text being well
\* written before it
RECURSIVE Where(_, _)
Where(p, k) == IF k = 0 THEN "out" ELSE After(Where(p, k - 1), StrAt(p, k - 1))

\* An element of a set is required
InSet == {"open", "first", "set"}

\* The character at offset k is not printable and is not the terminator
Unprintable(p, k) == k < Len(p) /\ StrAt(p, k) \notin Printable

\* The offset of the first character of the text that is not printable; the
\* length of the text when all are
FirstUnprintable(p) ==
  IF \E k \in 0..(Len(p) - 1) : Unprintable(p, k)
    THEN CHOOSE k \in 0..(Len(p) - 1) :
           Unprintable(p, k) /\ \A j \in 0..(k - 1) : ~Unprintable(p, j)
    ELSE Len(p)

\* C15: a character of the text that is not printable is never consumed (*end
\* is at most its offset); a compilation that stops at it where an atom is
\* required fails with REREX_EXPECTED_CHAR, one that stops at it where an
\* element of a set is required (the first, a later one, the upper end behind
\* a -) fails with REREX_EXPECTED_ELEMENT, and these statuses are given for
\* no other character. (A compilation that fails with REREX_NO_MEMORY has not
\* read the text, and one that fails with REREX_UNORDERED_RANGE has not read
\* the character at *end.)
C15_Unprintable ==
  LET Rejected(k, where) ==
        /\ end <= k
        /\ (end = k /\ k < Len(pattern) /\ where = "out") =>
             st = Returned(REREX_EXPECTED_CHAR)
        /\ (end = k /\ k < Len(pattern) /\ where \in InSet) =>
             st \in {Returned(REREX_EXPECTED_ELEMENT), Returned(REREX_UNORDERED_RANGE)}
        /\ st = Returned(REREX_EXPECTED_CHAR) => (end = k /\ where = "out")
        /\ st = Returned(REREX_EXPECTED_ELEMENT) => (end = k /\ where \in InSet)
        /\ st \in {Returned(REREX_EXPECTED_CHAR), Returned(REREX_EXPECTED_ELEMENT)} =>
             k < Len(pattern)
  IN (st # NONE /\ st # Returned(REREX_NO_MEMORY)) =>
       Rejected(FirstUnprintable(pattern), Where(pattern, FirstUnprintable(pattern)))

\* A compilation has stopped at a character that is not printable, written
\* as the upper end of a range
C15_Witness ==
  /\ st = Returned(REREX_EXPECTED_ELEMENT)
  /\ end = 3
  /\ StrAt(pattern, 0) = Ch.lbracket
  /\ StrAt(pattern, 1) = Ch.a
  /\ StrAt(pattern, 2) = Ch.minus
  /\ StrAt(pattern, 3) = Ch.del

\* The character at offset k stands behind a backslash and is not one that
\* may: outside a set a special character or -, in a set ]. The terminator
\* is such a character.
BadEscape(p, k) ==
  LET Bad(where, c) ==
        \/ where = "escape" /\ ~is_special(c) /\ c # Ch.minus
        \/ where = "set escape" /\ c # Ch.rbracket
  IN Bad(Where(p, k), StrAt(p, k))

\* The offset of the first such character; beyond the terminator when there
\* is none
FirstBadEscape(p) ==
  IF \E k \in 1..Len(p) : BadEscape(p, k)
    THEN CHOOSE k \in 1..Len(p) : BadEscape(p, k) /\ \A j \in 1..(k - 1) : ~BadEscape(p, j)
    ELSE Len(p) + 1

\* C16: a compilation does not read past a character that follows a backslash
\* and may not (*end is at most its offset); one that stops at it fails with
\* REREX_EXPECTED_SPECIAL outside a set (any character that is neither special
\* nor -, the terminator and a second backslash among them) and with
\* REREX_EXPECTED_RBRACKET in a set (any character but ]); *end is then the
\* offset of the character behind the backslash, and the two statuses are
\* given in no other case. (A compilation that fails with REREX_NO_MEMORY
\* has not read the text.)
C16_EscapeErrors ==
  LET Rejected(k, where) ==
        /\ k <= Len(pattern) => end <= k
        /\ (end = k /\ where = "escape") => st = Returned(REREX_EXPECTED_SPECIAL)
        /\ (end = k /\ where = "set escape") => st = Returned(REREX_EXPECTED_RBRACKET)
        /\ st = Returned(REREX_EXPECTED_SPECIAL) =>
             /\ end = k
             /\ where = "escape"
             /\ StrAt(pattern, end - 1) = Ch.backslash
        /\ st = Returned(REREX_EXPECTED_RBRACKET) =>
             /\ end = k
             /\ where = "set escape"
             /\ StrAt(pattern, end - 1) = Ch.backslash
  IN (st # NONE /\ st # Returned(REREX_NO_MEMORY)) =>
       Rejected(FirstBadEscape(pattern), Where(pattern, FirstBadEscape(pattern)))

\* A compilation has failed at a second backslash outside a set, inside the
\* text
C16_Witness ==
  /\ st = Returned(REREX_EXPECTED_SPECIAL)
  /\ end >= 2
  /\ end < Len(pattern)
  /\ StrAt(pattern, end) = Ch.backslash

\* What the character before offset k of the text leaves the parser to read
\* at k, outside a set: an atom at the start of an expression ("start": the
\* start of the text, behind ( or |), an operator or an atom behind an atom
\* ("atom"), an atom behind a factor with its operator ("factor")
Behind(p, k) ==
  LET Kind(where, c) ==
        IF where # "out" THEN "atom"
        ELSE IF c \in {Ch.lparen, Ch.bar} THEN "start"
        ELSE IF c \in {Ch.star, Ch.plus, Ch.question} THEN "factor"
        ELSE "atom"
  IN IF k = 0 THEN "start" ELSE Kind(Where(p, k - 1), StrAt(p, k - 1))

Operators == {Ch.star, Ch.plus, Ch.question}

\* Special characters that begin no atom and end no group
Stray == {Ch.lbrace, Ch.rbrace, Ch.rbracket, Ch.caret}

\* The character at offset k is a special character where an atom or an
\* element of a set is required
Misplaced(p, k) ==
  LET Is(where, behind, c) ==
        \/ where \in {"open", "first"} /\ c = Ch.rbracket
        \/ where = "out" /\ behind = "start"
             /\ c \in Operators \cup Stray \cup {Ch.bar, Ch.rparen}
        \/ where = "out" /\ behind = "atom" /\ c \in Stray
        \/ where = "out" /\ behind = "factor" /\ c \in Operators \cup Stray
  IN Is(Where(p, k), Behind(p, k), StrAt(p, k))

\* The offset of the first such character; the length of the text when there
\* is none
FirstMisplaced(p) ==
  IF \E k \in 0..(Len(p) - 1) : Misplaced(p, k)
    THEN CHOOSE k \in 0..(Len(p) - 1) :
           Misplaced(p, k) /\ \A j \in 0..(k - 1) : ~Misplaced(p, j)
    ELSE Len(p)

\* C17: a compilation does not read past a special character that stands
\* where an atom or an element of a set is required: * + ? { } | ) ] ^ at the
\* start of the text, behind ( or behind |; ] as the first element of a set
\* or behind a closed set; { } ] ^ behind any atom; an operator behind a
\* factor that has one (a**, a+?). One that stops at such a character fails
\* with REREX_UNEXPECTED_SPECIAL, *end being its offset, and that status is
\* given in no other case.
C17_UnexpectedSpecial ==
  LET Rejected(k) ==
        /\ end <= k
        /\ (end = k /\ k < Len(pattern)) => st = Returned(REREX_UNEXPECTED_SPECIAL)
        /\ st = Returned(REREX_UNEXPECTED_SPECIAL) => (end = k /\ k < Len(pattern))
  IN st # NONE => Rejected(FirstMisplaced(pattern))

\* A compilation has stopped at a second operator behind a factor
C17_Witness ==
  /\ st = Returned(REREX_UNEXPECTED_SPECIAL)
  /\ end = 2
  /\ StrAt(pattern, 0) = Ch.a
  /\ StrAt(pattern, 1) = Ch.plus
  /\ StrAt(pattern, 2) = Ch.question

\* The text ends where an atom or an element of a set is required: at the
\* start of an expression, or in a set that no ] has closed
EndsEarly(p) ==
  LET Is(where, behind) ==
        \/ where \in InSet
        \/ where = "out" /\ behind = "start"
  IN Is(Where(p, Len(p)), Behind(p, Len(p)))

\* Texts that end where an atom or an element is required
EarlyEnds ==
  {<<>>,
   <<Ch.lparen>>,
   <<Ch.a, Ch.bar>>,
   <<Ch.lbracket>>,
   <<Ch.lbracket, Ch.caret>>,
   <<Ch.lbracket, Ch.a, Ch.minus>>,
   <<Ch.lbracket, Ch.a>>}

\* C18: a compilation that reaches the end of a text that ends where an atom
\* or an element of a set is required (the empty text, behind (, behind |,
\* behind [ or [^, behind the - of a range, in a set not closed) fails with
\* REREX_UNEXPECTED_END, *end being the length of the text, and that status
\* is given in no other case. (A compilation that fails with
\* REREX_UNORDERED_RANGE just before the end has not read the terminator.)
C18_UnexpectedEnd ==
  st # NONE =>
    /\ (EndsEarly(pattern) /\ end = Len(pattern)) =>
         st \in {Returned(REREX_UNEXPECTED_END), Returned(REREX_UNORDERED_RANGE)}
    /\ EndsEarly(pattern) => st # Returned(REREX_SUCCESS) \/ end < Len(pattern)
    /\ st = Returned(REREX_UNEXPECTED_END) => (EndsEarly(pattern) /\ end = Len(pattern))
    /\ pattern \in EarlyEnds => (st = Returned(REREX_UNEXPECTED_END) /\ end = Len(pattern))

\* A compilation has stopped at the end of a text that ends behind the - of
\* a range
C18_Witness ==
  /\ st = Returned(REREX_UNEXPECTED_END)
  /\ end = 3
  /\ pattern = <<Ch.lbracket, Ch.a, Ch.minus>>

\* The number of groups open at offset k of the text: the ( read outside
\* sets and escapes, less the ) that close them
RECURSIVE Depth(_, _)
Depth(p, k) ==
  LET Count(d, where, c) ==
        IF where = "out" /\ c = Ch.lparen THEN d + 1
        ELSE IF where = "out" /\ c = Ch.rparen THEN d - 1
        ELSE d
  IN IF k = 0 THEN 0 ELSE Count(Depth(p, k - 1), Where(p, k - 1), StrAt(p, k - 1))

\* The text ends behind an atom or a factor, outside a set
EndsTerm(p) == Where(p, Len(p)) = "out" /\ Behind(p, Len(p)) # "start"

\* C19: REREX_EXPECTED_RPAREN is returned exactly by the compilations that
\* have read the expression of a group to the end of the text with the group
\* still open; *end is then the length of the text (2 for (a), the cursor
\* being on the terminator. A compilation that reaches the end of the text
\* behind an atom with no group open succeeds.
C19_ExpectedRparen ==
  st # NONE =>
    /\ st = Returned(REREX_EXPECTED_RPAREN) =>
         /\ end = Len(pattern)
         /\ EndsTerm(pattern)
         /\ Depth(pattern, end) > 0
    /\ (end = Len(pattern) /\ EndsTerm(pattern) /\ Depth(pattern, end) > 0) =>
         st = Returned(REREX_EXPECTED_RPAREN)
    /\ (end = Len(pattern) /\ EndsTerm(pattern) /\ Depth(pattern, end) = 0) =>
         st = Returned(REREX_SUCCESS)
    /\ pattern = <<Ch.lparen, Ch.a>> => (st = Returned(REREX_EXPECTED_RPAREN) /\ end = 2)

\* A compilation has read a repetition in a group to the end of the text
C19_Witness ==
  /\ st = Returned(REREX_EXPECTED_RPAREN)
  /\ end = Len(pattern)
  /\ end = 3
  /\ StrAt(pattern, 0) = Ch.lparen
  /\ StrAt(pattern, 2) = Ch.star

-----------------------------------------------------------------------------
(* Characters left behind the expression *)

\* The offset of the first ) of the text that closes no group; the length
\* of the text when there is none
FirstUnmatched(p) ==
  LET Unmatched(k) == StrAt(p, k) = Ch.rparen /\ Depth(p, k) = 0
  IN IF \E k \in 0..(Len(p) - 1) : Unmatched(k)
       THEN CHOOSE k \in 0..(Len(p) - 1) :
              Unmatched(k) /\ \A j \in 0..(k - 1) : ~Unmatched(j)
       ELSE Len(p)

\* C20: a compilation succeeds exactly when the text before its first
\* unmatched ), the whole text when it has none, is an expression; *end is
\* then the offset of that ) or of the terminator, the first character not
\* consumed, the pattern is the one compiled from the text before it, and a
\* matcher of it accepts the texts that the expression before the ) accepts:
\* a) and a)b compile with *end = 1.
C20_TrailingJunk ==
  LET Stops(k, c) ==
        /\ st = Returned(REREX_SUCCESS) <=> (c.st = REREX_SUCCESS /\ c.end = k)
        /\ st = Returned(REREX_SUCCESS) =>
             /\ end = k
             /\ StrAt(pattern, end) \in {0, Ch.rparen}
             /\ out = c.out
             /\ (result # NONE /\ end < Len(pattern)) =>
                  result = Returned(Matches(c, string))
      Prefix(k) == Stops(k, Compiled(SubSeq(pattern, 1, k)))
  IN st # NONE =>
       /\ Prefix(FirstUnmatched(pattern))
       /\ pattern \in {<<Ch.a, Ch.rparen>>, <<Ch.a, Ch.rparen, Ch.b>>} =>
            (st = Returned(REREX_SUCCESS) /\ end = 1)

\* A pattern compiled from a text with characters left behind an unmatched )
\* has accepted a text that the expression before it accepts
C20_Witness ==
  /\ st = Returned(REREX_SUCCESS)
  /\ end >= 2
  /\ end < Len(pattern) - 1
  /\ StrAt(pattern, end) = Ch.rparen
  /\ result = Returned(TRUE)
  /\ string # <<>>

-----------------------------------------------------------------------------
(* Status texts *)

\* C21: rerex_strerror gives each of the ten statuses REREX_SUCCESS ..
\* REREX_NO_MEMORY its own entry of the table, "Success" for REREX_SUCCESS
\* and another text for every other status, no two statuses sharing a text;
\* it gives "Unknown error" for every other value, above the statuses or
\* negative, and reads the table only at an index inside it.
C21_StatusTexts ==
  message # NONE =>
    /\ st[1] \in REREX_SUCCESS..REREX_NO_MEMORY =>
         /\ message = Returned(status_strings[st[1] + 1])
         /\ (message = Returned("Success")) <=> (st[1] = REREX_SUCCESS)
         /\ \A s \in REREX_SUCCESS..REREX_NO_MEMORY :
              status_strings[s + 1] = message[1] => s = st[1]
         /\ message # Returned("Unknown error")
    /\ st[1] \notin REREX_SUCCESS..REREX_NO_MEMORY => message = Returned("Unknown error")
    /\ in_table(st[1]) => st[1] \in 0..(Len(status_strings) - 1)
    /\ (st[1] = REREX_NO_MEMORY) <=> (message = Returned("Failed to allocate memory"))

\* rerex_strerror has returned for a negative status
C21_Witness ==
  /\ message = Returned("Unknown error")
  /\ st[1] < 0

-----------------------------------------------------------------------------
(* Concurrent matches *)

\* C22: when two threads run rerex_match concurrently, each on its own
\* matcher of the one pattern, under every interleaving of their statements
\* each call returns the verdict that the call returns when it runs alone,
\* and the pattern stays as compiled.
C22_ConcurrentMatches ==
  "matchers" \in heap =>
    /\ out = Compiled(pattern).out
    /\ \A thread \in Threads :
         calls[thread].pc = "done" =>
           calls[thread].result = Returned(Accepts(pattern, calls[thread].string))

\* The two calls have run interleaved, one accepting and one rejecting its
\* text: one was in its loop over the active states while the other had not
\* returned
C22_Witness ==
  /\ calls[1].pc = "done"
  /\ calls[1].result = Returned(TRUE)
  /\ calls[2].pc = "state"
  /\ calls[2].string # calls[1].string
  /\ calls[2].string # <<>>

-----------------------------------------------------------------------------
(* The pattern under its matchers *)

\* The state array (every state's kind or lower bound, upper bound and
\* successors), its number of states and the start index are the same in
\* the two patterns
SamePattern(p1, p2) ==
  /\ Len(p1.states) = Len(p2.states)
  /\ p1.start = p2.start
  /\ \A i \in 1..Len(p1.states) :
       /\ p1.states[i].min = p2.states[i].min
       /\ p1.states[i].max = p2.states[i].max
       /\ p1.states[i].next1 = p2.states[i].next1
       /\ p1.states[i].next2 = p2.states[i].next2

\* C23: every step taken while the pattern is allocated (rerex_new_matcher,
\* rerex_match, rerex_free_matcher) leaves the pattern's state array, its
\* number of states and its start index unchanged, and a rerex_match step
\* changes nothing but the contents of the matcher's two lists and of
\* last_active, whose sizes stay, and the caller's text and verdict.
C23_PatternImmutable ==
  [][/\ ("pattern" \in heap /\ "pattern" \in heap') =>
          (SamePattern(out, out') /\ out' = out)
     /\ (matcher # NULL /\ matcher' # NULL) =>
          /\ Len(matcher'.active[1].indices) = Len(matcher.active[1].indices)
          /\ Len(matcher'.active[2].indices) = Len(matcher.active[2].indices)
          /\ Len(matcher'.last_active) = Len(matcher.last_active)
          /\ matcher'.overrun = matcher.overrun
          /\ UNCHANGED <<pattern, st, end, out, heap>>]_vars

\* A matcher that has matched before has accepted a text of two characters
\* against a pattern with a Split state
C23_Witness ==
  /\ "pattern" \in heap
  /\ matcher # NULL
  /\ result = Returned(TRUE)
  /\ Len(string) = 2
  /\ \E i \in 1..Len(out.states) : out.states[i].min = REREX_SPLIT
  /\ \E i \in DOMAIN matcher.last_active : matcher.last_active[i] = 2

-----------------------------------------------------------------------------
(* Termination *)

\* The states of the pattern that the matcher has not entered in the step
\* that the call is entering states for
Unentered(regexp, m, call) ==
  LET Unmarked(step) ==
        Cardinality({s \in 1..Len(m.last_active) : m.last_active[s] # step})
  IN IF call.back = "char" THEN Unmarked(0) ELSE Unmarked(call.i + 1)

\* C24: every call of rerex_match on a compiled pattern and a finite text
\* returns, and returns a boolean, for patterns whose states have cycles of
\* Split arcs too; enter_state marks a state before it follows its arcs, so
\* that in one step every call of it either enters a state not yet entered
\* in the step or returns at once, and the calls nest no deeper than the
\* pattern has states.
C24_Terminates ==
  /\ (calls[1].pc = "reset") ~> (calls[1].pc = "done")
  /\ [](calls[1].pc = "done" => calls[1].result \in {Returned(TRUE), Returned(FALSE)})
  /\ [](calls[1].pc = "entering" => Len(calls[1].stack) <= Len(out.states))
  /\ [][(calls[1].pc = "entering" /\ calls'[1].pc = "entering") =>
          \/ Unentered(out, matchers'[1], calls'[1]) < Unentered(out, matchers[1], calls[1])
          \/ /\ Unentered(out, matchers'[1], calls'[1]) = Unentered(out, matchers[1], calls[1])
             /\ Len(calls'[1].stack) < Len(calls[1].stack)]_vars

\* A call on (a*)* has come back to a Split state that it had entered in
\* the same step, around a cycle of Split arcs
C24_Witness ==
  /\ pattern = <<Ch.lparen, Ch.a, Ch.star, Ch.rparen, Ch.star>>
  /\ calls[1].pc = "entering"
  /\ calls[1].stack # <<>>
  /\ Head(calls[1].stack) # NO_STATE
  /\ StateAt(out.states, Head(calls[1].stack)).min = REREX_SPLIT
  /\ matchers[1].last_active[Head(calls[1].stack) + 1]
       = (IF calls[1].back = "char" THEN 0 ELSE calls[1].i + 1)

-----------------------------------------------------------------------------
(* The states of a pattern *)

\* The states that the arcs of the states of from lead to
Successors(states, from) ==
  {n \in UNION {{StateAt(states, s).next1, StateAt(states, s).next2} : s \in from} :
     n # NO_STATE}

\* The states reachable from those of frontier along arcs, with those seen
RECURSIVE Reach(_, _, _)
Reach(states, seen, frontier) ==
  LET Grow(new) == Reach(states, seen \cup new, new)
  IN IF frontier = {} THEN seen ELSE Grow(Successors(states, frontier) \ seen)

\* The states reachable from start along arcs, start among them
Reachable(states, start) == Reach(states, {start}, {start})

\* The indices of the Match states of a state array
MatchStates(states) == {s \in 0..(Len(states) - 1) : StateAt(states, s).min = REREX_MATCH}

\* The states with an arc to the state s
Sources(states, s) ==
  {f \in 0..(Len(states) - 1) :
     StateAt(states, f).next1 = s \/ StateAt(states, f).next2 = s}

\* C25 as stated: in a compiled pattern exactly one state of the whole state
\* array is a Match state.
C25_OneMatchState ==
  (st = Returned(REREX_SUCCESS) /\ "pattern" \in heap) =>
    Cardinality(MatchStates(out.states)) = 1

\* C25: in a compiled pattern exactly one Match state is reachable from the
\* start, the accepting state; the state array may hold more Match states,
\* the ends of fragments that concatenate and alternate dropped when they
\* linked a fragment of two states directly, and no arc leads to any of those.
C25_OneMatchReachable ==
  LET Only(reached, matches) ==
        /\ Cardinality(matches \cap reached) = 1
        /\ \A s \in matches \ reached : Sources(out.states, s) = {}
  IN (st = Returned(REREX_SUCCESS) /\ "pattern" \in heap) =>
       Only(Reachable(out.states, out.start), MatchStates(out.states))

\* A compiled pattern holds three Match states, two of them dropped
C25_Witness ==
  /\ st = Returned(REREX_SUCCESS)
  /\ "pattern" \in heap
  /\ Cardinality(MatchStates(out.states)) = 3
  /\ \E s \in 1..(Len(out.states) - 1) : StateAt(out.states, s).min = REREX_SPLIT

\* The fragment that read_expr returns for the text p, in its state array
Fragment(p) == read_expr(p, ParseStart)

\* The end of the fragment nfa is a Match state, reachable from the start,
\* and every other state reachable from the start is a Range or a Split
WellEnded(states, nfa) ==
  LET Kinds(reached) ==
        /\ nfa.end \in reached
        /\ \A s \in reached \ {nfa.end} :
             \/ StateAt(states, s).min < REREX_MATCH
             \/ StateAt(states, s).min = REREX_SPLIT
  IN /\ StateAt(states, nfa.end).min = REREX_MATCH
     /\ Kinds(Reachable(states, nfa.start))

\* C26: the fragment that the parser returns for a compiled text, built by
\* the builder operation of its outermost construct (atom, set, group, star,
\* plus, question, concatenation, alternation) from the fragments of its
\* parts, ends in a Match state that is reachable from the fragment's start,
\* and every other state reachable from the start is a Range or a Split; the
\* fragment built by star, plus and question out of it is of that form too,
\* and the compiled pattern starts at the fragment's start.
C26_FragmentEnds ==
  LET Ended(r) ==
        /\ out.start = r.nfa.start
        /\ out.states = r.states
        /\ WellEnded(r.states, r.nfa)
        /\ \A f \in {star(r, r.nfa), plus(r, r.nfa), question(r, r.nfa)} :
             WellEnded(f.states, f.nfa)
  IN (st = Returned(REREX_SUCCESS) /\ "pattern" \in heap) => Ended(Fragment(pattern))

\* An alternation of two fragments of more than two states is compiled: its
\* fragment ends in the Match state that alternate added last
C26_Witness ==
  /\ st = Returned(REREX_SUCCESS)
  /\ "pattern" \in heap
  /\ pattern = <<Ch.a, Ch.star, Ch.bar, Ch.a, Ch.question>>
  /\ Fragment(pattern).nfa.end = Len(out.states) - 1
  /\ StateAt(out.states, out.start).min = REREX_SPLIT

\* The entries of the index list l of the matcher m: the states appended to
\* it since its n_indices was last set to 0
Entries(m, l) ==
  {IndexAt(m.active[l + 1], j) : j \in 0..(m.active[l + 1].n_indices - 1)}

\* C27: when no allocation fails, the state array of a compiled pattern has
\* the placeholder at index 0; the pattern's start and the start and end of
\* the fragment read are indices from 1 on; next1 and next2 of every state
\* are 0 or the index of a state of the array; every Range state reachable
\* from the start has a next1 other than 0; and at every statement of
\* rerex_match neither index list holds index 0.
C27_IndexValidity ==
  LET n == Len(out.states)
      Existing == 1..(n - 1)
      Linked(reached) ==
        \A s \in reached :
          StateAt(out.states, s).min < REREX_MATCH =>
            StateAt(out.states, s).next1 # NO_STATE
      Array(nfa) ==
        /\ StateAt(out.states, 0) = split_state(NO_STATE, NO_STATE)
        /\ out.start \in Existing
        /\ nfa.start \in Existing
        /\ nfa.end \in Existing
        /\ \A s \in 0..(n - 1) :
             /\ StateAt(out.states, s).next1 \in 0..(n - 1)
             /\ StateAt(out.states, s).next2 \in 0..(n - 1)
        /\ Linked(Reachable(out.states, out.start))
      Lists(m) ==
        /\ NO_STATE \notin Entries(m, 0)
        /\ NO_STATE \notin Entries(m, 1)
  IN (st = Returned(REREX_SUCCESS) /\ "pattern" \in heap) =>
       /\ Array(Fragment(pattern).nfa)
       /\ "matchers" \in heap => Lists(matchers[1])

\* In the middle of a match, enter_state is called for NO_STATE, the next2
\* of the Split that concatenate wrote, while the list being filled holds a
\* state
C27_Witness ==
  /\ st = Returned(REREX_SUCCESS)
  /\ "matchers" \in heap
  /\ calls[1].pc = "entering"
  /\ calls[1].back = "state"
  /\ calls[1].stack # <<>>
  /\ Head(calls[1].stack) = NO_STATE
  /\ Entries(matchers[1], 1 - calls[1].phase) # {}

\* The step and the list that the enter_state calls of a thread's running
\* call of rerex_match are made with
StepOf(call) == IF call.back = "char" THEN 0 ELSE call.i + 1
ListOf(call) == IF call.back = "char" THEN 0 ELSE 1 - call.phase

\* C28: at every statement of rerex_match, each index list of the matcher
\* holds every state index at most once and is no longer than the number of
\* states of the pattern, which is the capacity that rerex_new_matcher gave
\* it, and nothing was written past the end of a list; once the marks are
\* reset, every mark is SIZE_MAX or a step of this call, and the steps, 0 to
\* the length of the text, all differ from SIZE_MAX.
C28_ListsBounded ==
  LET Bounded(m, l) ==
        /\ m.active[l + 1].n_indices <= Len(out.states)
        /\ Len(m.active[l + 1].indices) = Len(out.states)
        /\ Cardinality(Entries(m, l)) = m.active[l + 1].n_indices
      Marked(m, call) ==
        /\ call.pc = "entering" => StepOf(call) \in 0..Len(call.string)
        /\ \A step \in 0..Len(call.string) : step # SIZE_MAX
        /\ \A s \in 0..(Len(out.states) - 1) :
             m.last_active[s + 1] \in {SIZE_MAX} \cup 0..Len(call.string)
  IN "matchers" \in heap =>
       /\ Bounded(matchers[1], 0)
       /\ Bounded(matchers[1], 1)
       /\ ~matchers[1].overrun
       /\ calls[1].pc \in {"enter", "entering", "state"} => Marked(matchers[1], calls[1])

\* enter_state is called for a Match state that is in the list being filled
\* already, entered at this step along another arc
C28_Witness ==
  /\ "matchers" \in heap
  /\ calls[1].pc = "entering"
  /\ calls[1].stack # <<>>
  /\ Head(calls[1].stack) \in Entries(matchers[1], ListOf(calls[1]))
  /\ matchers[1].last_active[Head(calls[1].stack) + 1] = StepOf(calls[1])
  /\ StepOf(calls[1]) > 0
  /\ StateAt(out.states, Head(calls[1].stack)).min = REREX_MATCH

\* The byte c is in the range of the state: the test of rerex_match
Takes(state, c) == state.min <= c /\ c <= state.max

\* The values a char can have, signed or not
Bytes == -128..255

\* The text p is a negated set of one range, lo-hi or lo alone
NegatedRange(p, lo, hi) ==
  \/ p = <<Ch.lbracket, Ch.caret, lo, Ch.minus, hi, Ch.rbracket>>
  \/ lo = hi /\ p = <<Ch.lbracket, Ch.caret, lo, Ch.rbracket>>

\* C29: in every state array that the compiler builds, for a text that
\* compiles or not, every state is a Match, a Split, or a Range whose min is
\* in 0x20..0x7F and whose max is in 0x1F..0x7E, so that the test of
\* is_trivial (min below REREX_MATCH) holds of the Range states and of no
\* other.  A negated range lo-hi gives the Range states cmin..lo-1 and
\* hi+1..cmax; with lo = cmin the first has min above max, with hi = cmax the
\* second has, such a state takes no byte, and the set accepts the one-byte
\* texts of the normal characters outside lo..hi and no other.
C29_RangeBounds ==
  LET Kinds(states) ==
        \A s \in 0..(Len(states) - 1) :
          /\ \/ StateAt(states, s).min \in {REREX_MATCH, REREX_SPLIT}
             \/ /\ StateAt(states, s).min \in 32..127
                /\ StateAt(states, s).max \in 31..126
          /\ (StateAt(states, s).min < REREX_MATCH) <=>
               (StateAt(states, s).min \notin {REREX_MATCH, REREX_SPLIT})
      Empty(state) ==
        /\ state.min > state.max
        /\ \A c \in Bytes : ~Takes(state, c)
      Negated(lo, hi) ==
        /\ StateAt(out.states, 2) = range_state(cmin, lo - 1, 1)
        /\ StateAt(out.states, 3) = range_state(hi + 1, cmax, 1)
        /\ lo = cmin => Empty(StateAt(out.states, 2))
        /\ hi = cmax => Empty(StateAt(out.states, 3))
        /\ (result # NONE /\ Len(string) = 1) =>
             result = Returned(/\ string[1] \in cmin..cmax
                               /\ ~(lo <= string[1] /\ string[1] <= hi))
  IN /\ st # NONE => Kinds(Fragment(pattern).states)
     /\ (st = Returned(REREX_SUCCESS) /\ "pattern" \in heap) =>
          /\ Kinds(out.states)
          /\ \A lo, hi \in {cmin, Ch.slash, Ch.lbrace, cmax} :
               NegatedRange(pattern, lo, hi) => Negated(lo, hi)

\* The set [^ -/] is compiled, its first Range state is 0x20..0x1F, and the
\* text of a space was matched against it
C29_Witness ==
  /\ st = Returned(REREX_SUCCESS)
  /\ pattern = <<Ch.lbracket, Ch.caret, cmin, Ch.minus, Ch.slash, Ch.rbracket>>
  /\ StateAt(out.states, 2).min = 32
  /\ StateAt(out.states, 2).max = 31
  /\ string = <<cmin>>
  /\ result = Returned(FALSE)

\* C30: for every pattern text, compiled or refused, the end reported is
\* the parser's last cursor and is at most the length of the text, so that
\* every peek read the text or its terminator; the cursor got there by eat
\* alone, one byte at a time, each byte eaten being one of the text and not
\* the terminator; and peekahead was evaluated only with the cursor at a
\* '-', where the byte it reads is of the text or the terminator.
C30_CursorInText ==
  LET InText(r) ==
        /\ end = r.off
        /\ end <= Len(pattern)
        /\ r.eaten = 0..(end - 1)
        /\ \A k \in r.eaten : k < Len(pattern) /\ StrAt(pattern, k) # 0
        /\ \A k \in r.ahead :
             /\ StrAt(pattern, k) = Ch.minus
             /\ k + 1 <= Len(pattern)
  IN st # NONE => InText(Fragment(pattern))

\* A set ends in the text after the '-' of a range: peekahead read the
\* terminator there, the '-' was eaten and the end reported is the length
C30_Witness ==
  /\ st = Returned(REREX_UNEXPECTED_END)
  /\ pattern = <<Ch.lbracket, Ch.a, Ch.minus>>
  /\ end = Len(pattern)
  /\ Fragment(pattern).ahead = {2}
  /\ 2 \in Fragment(pattern).eaten

=============================================================================
